---- MODULE Spec2Model ----
(***************************************************************************)
(* A model of checkSyntax (src/app/utils/syntaxChecker.ts): the rule-based *)
(* checker of Cambridge pseudocode.  The input is a string, a line is a    *)
(* string, a diagnostic is a record [line, message, type]; the regular     *)
(* expressions of the source are written as node sequences and run by a    *)
(* backtracking matcher of JavaScript's semantics (leftmost match, greedy  *)
(* quantifiers tried longest first, lazy ones shortest first).             *)
(***************************************************************************)
EXTENDS Integers, Sequences, FiniteSets, TLC

VARIABLES code, lines, pc, index, errors, blockStack, arrayDeclarations,
          declaredVariables, variableTypes, declaredFunctions, result,
          ran, first, calls

vars == <<code, lines, pc, index, errors, blockStack, arrayDeclarations,
          declaredVariables, variableTypes, declaredFunctions, result,
          ran, first, calls>>

(***************************************************************************)
(* Strings.  TLC gives Len, SubSeq and \o on strings; a character is a     *)
(* string of length 1.                                                     *)
(***************************************************************************)
Ch(s, i) == SubSeq(s, i, i)

\* The element of a singleton set.  Only({e(x) : x \in {v}}) is e(v) with v
\* evaluated once, where LET x == v IN e(x) may evaluate v at every use of x.
Only(S) == CHOOSE x \in S : TRUE

CharsOf(s) == {Ch(s, i) : i \in 1..Len(s)}

LowerAlpha == "abcdefghijklmnopqrstuvwxyz"
UpperAlpha == "ABCDEFGHIJKLMNOPQRSTUVWXYZ"
DigitChars == "0123456789"

LowerSet == CharsOf(LowerAlpha)
UpperSet == CharsOf(UpperAlpha)
DigitSet == CharsOf(DigitChars)
LetterSet == LowerSet \cup UpperSet
\* [a-zA-Z_] and [a-zA-Z0-9_] (the latter is also \w)
IdStartSet == LetterSet \cup {"_"}
WordSet == LetterSet \cup DigitSet \cup {"_"}
\* \s, restricted to the white space a line can hold (a line holds no \n)
SpaceSet == {" ", "\t"}

UpperOfChar == [c \in LowerSet |-> Ch(UpperAlpha, CHOOSE i \in 1..26 : Ch(LowerAlpha, i) = c)]
LowerOfChar == [c \in UpperSet |-> Ch(LowerAlpha, CHOOSE i \in 1..26 : Ch(UpperAlpha, i) = c)]
DigitValue == [c \in DigitSet |-> (CHOOSE i \in 1..10 : Ch(DigitChars, i) = c) - 1]

UpChar(c) == IF c \in LowerSet THEN UpperOfChar[c] ELSE c
LowChar(c) == IF c \in UpperSet THEN LowerOfChar[c] ELSE c

RECURSIVE toUpperCase(_)
toUpperCase(s) == IF s = "" THEN "" ELSE UpChar(Ch(s, 1)) \o toUpperCase(Tail(s))

RECURSIVE toLowerCase(_)
toLowerCase(s) == IF s = "" THEN "" ELSE LowChar(Ch(s, 1)) \o toLowerCase(Tail(s))

\* parseInt of a string of digits
RECURSIVE parseInt(_)
parseInt(s) ==
  IF s = "" THEN 0 ELSE 10 * parseInt(SubSeq(s, 1, Len(s) - 1)) + DigitValue[Ch(s, Len(s))]

includes(s, sub) ==
  \E i \in 1..(Len(s) - Len(sub) + 1) : SubSeq(s, i, i + Len(sub) - 1) = sub

startsWith(s, p) == Len(p) <= Len(s) /\ SubSeq(s, 1, Len(p)) = p

\* indexOf, 1-based; 0 when absent (JavaScript: 0-based, -1 when absent)
indexOf(s, sub) ==
  IF includes(s, sub)
  THEN CHOOSE i \in 1..(Len(s) - Len(sub) + 1) :
         /\ SubSeq(s, i, i + Len(sub) - 1) = sub
         /\ \A j \in 1..(i - 1) : SubSeq(s, j, j + Len(sub) - 1) # sub
  ELSE 0

RECURSIVE trimStart(_)
trimStart(s) == IF s # "" /\ Ch(s, 1) \in SpaceSet THEN trimStart(Tail(s)) ELSE s

RECURSIVE trimEnd(_)
trimEnd(s) ==
  IF s # "" /\ Ch(s, Len(s)) \in SpaceSet THEN trimEnd(SubSeq(s, 1, Len(s) - 1)) ELSE s

trim(s) == trimEnd(trimStart(s))

\* s.split(sep) for a one-character separator: always at least one piece
\* (from: where the current piece begins)
RECURSIVE SplitFrom(_, _, _)
SplitFrom(s, sep, from) ==
  Only({ IF hits = {} THEN <<SubSeq(s, from, Len(s))>>
         ELSE Only({ <<SubSeq(s, from, k - 1)>> \o SplitFrom(s, sep, k + 1)
                     : k \in {h \in hits : \A g \in hits : h <= g} })
         : hits \in {{h \in from..Len(s) : Ch(s, h) = sep}} })

split(s, sep) == SplitFrom(s, sep, 1)

\* s.split(/\s+/): the pieces between maximal runs of white space
RECURSIVE splitSpaces(_, _)
splitSpaces(s, acc) ==
  IF s = "" THEN <<acc>>
  ELSE IF Ch(s, 1) \in SpaceSet
       THEN <<acc>> \o splitSpaces(trimStart(s), "")
       ELSE splitSpaces(Tail(s), acc \o Ch(s, 1))

RECURSIVE join(_, _)
join(ss, sep) ==
  IF Len(ss) = 0 THEN ""
  ELSE IF Len(ss) = 1 THEN ss[1]
  ELSE ss[1] \o sep \o join(Tail(ss), sep)

(***************************************************************************)
(* Regular expressions.  A regular expression is a sequence of nodes:      *)
(*   set  : one character class with a quantifier {min,max} (max = -1: no  *)
(*          upper limit), greedy or lazy, possibly negated ([^...])        *)
(*   lit  : a literal string (compared case-insensitively under the i flag)*)
(*   alt  : an alternation of literal strings, tried in order              *)
(*   bol, eol, wb : ^, $ and \b                                            *)
(*   open, close  : the parentheses of capture group g                     *)
(***************************************************************************)
One(S) == [k |-> "set", set |-> S, neg |-> FALSE, min |-> 1, max |-> 1, lazy |-> FALSE]
Star(S) == [k |-> "set", set |-> S, neg |-> FALSE, min |-> 0, max |-> -1, lazy |-> FALSE]
Plus(S) == [k |-> "set", set |-> S, neg |-> FALSE, min |-> 1, max |-> -1, lazy |-> FALSE]
NotStar(S) == [k |-> "set", set |-> S, neg |-> TRUE, min |-> 0, max |-> -1, lazy |-> FALSE]
NotPlus(S) == [k |-> "set", set |-> S, neg |-> TRUE, min |-> 1, max |-> -1, lazy |-> FALSE]
\* .*  and  .*?  (a line holds no line terminator, so . is any character)
AnyStar == [k |-> "set", set |-> {}, neg |-> TRUE, min |-> 0, max |-> -1, lazy |-> FALSE]
AnyLazy == [k |-> "set", set |-> {}, neg |-> TRUE, min |-> 0, max |-> -1, lazy |-> TRUE]
Lit(s) == [k |-> "lit", s |-> s]
Alt(opts) == [k |-> "alt", opts |-> opts]
Bol == [k |-> "bol"]
Eol == [k |-> "eol"]
Wb == [k |-> "wb"]
Open(g) == [k |-> "open", g |-> g]
Close(g) == [k |-> "close", g |-> g]

NoMatch == [ok |-> FALSE]
NoCaps == <<<<0, 0>>, <<0, 0>>, <<0, 0>>>>

InClass(n, c) == (c \in n.set) # n.neg

LitAt(s, i, lit, ci) ==
  /\ i + Len(lit) - 1 <= Len(s)
  /\ IF ci THEN toUpperCase(SubSeq(s, i, i + Len(lit) - 1)) = toUpperCase(lit)
           ELSE SubSeq(s, i, i + Len(lit) - 1) = lit

IsWordAt(s, i) == i >= 1 /\ i <= Len(s) /\ Ch(s, i) \in WordSet

\* the length of the longest run of characters of class n from position i, at most cap
RECURSIVE RunLen(_, _, _, _)
RunLen(n, s, i, cap) ==
  IF cap = 0 \/ i > Len(s) \/ ~InClass(n, Ch(s, i)) THEN 0
  ELSE 1 + RunLen(n, s, i + 1, cap - 1)

\* Match(re, j, s, i, caps, ci): nodes j.. of re against s from position i
RECURSIVE Match(_, _, _, _, _, _)
RECURSIVE TryRep(_, _, _, _, _, _, _, _)
RECURSIVE TryAlt(_, _, _, _, _, _, _)

\* a quantified class: k repetitions, then the rest; on failure the next k
\* (one fewer when greedy, one more when lazy) until the limit lim is passed
TryRep(re, j, s, i, caps, ci, k, lim) ==
  Only({ IF r.ok THEN r
         ELSE IF k = lim THEN NoMatch
         ELSE TryRep(re, j, s, i, caps, ci, IF re[j].lazy THEN k + 1 ELSE k - 1, lim)
         : r \in {Match(re, j + 1, s, i + k, caps, ci)} })

TryAlt(re, j, s, i, caps, ci, o) ==
  IF o > Len(re[j].opts) THEN NoMatch
  ELSE Only({ IF r.ok THEN r ELSE TryAlt(re, j, s, i, caps, ci, o + 1)
              : r \in {IF LitAt(s, i, re[j].opts[o], ci)
                       THEN Match(re, j + 1, s, i + Len(re[j].opts[o]), caps, ci)
                       ELSE NoMatch} })

Match(re, j, s, i, caps, ci) ==
  IF j > Len(re) THEN [ok |-> TRUE, end |-> i, caps |-> caps]
  ELSE LET n == re[j]
       IN CASE n.k = "lit" ->
                 IF LitAt(s, i, n.s, ci) THEN Match(re, j + 1, s, i + Len(n.s), caps, ci)
                 ELSE NoMatch
            [] n.k = "alt" -> TryAlt(re, j, s, i, caps, ci, 1)
            [] n.k = "bol" -> IF i = 1 THEN Match(re, j + 1, s, i, caps, ci) ELSE NoMatch
            [] n.k = "eol" ->
                 IF i = Len(s) + 1 THEN Match(re, j + 1, s, i, caps, ci) ELSE NoMatch
            [] n.k = "wb" ->
                 IF IsWordAt(s, i - 1) # IsWordAt(s, i)
                 THEN Match(re, j + 1, s, i, caps, ci) ELSE NoMatch
            [] n.k = "open" ->
                 Match(re, j + 1, s, i, [caps EXCEPT ![n.g] = <<i, i>>], ci)
            [] n.k = "close" ->
                 Match(re, j + 1, s, i, [caps EXCEPT ![n.g] = <<caps[n.g][1], i>>], ci)
            [] n.k = "set" ->
                 Only({ IF most < n.min THEN NoMatch
                        ELSE IF n.lazy THEN TryRep(re, j, s, i, caps, ci, n.min, most)
                        ELSE TryRep(re, j, s, i, caps, ci, most, n.min)
                        : most \in {RunLen(n, s, i, IF n.max = -1 THEN Len(s) ELSE n.max)} })

\* the leftmost match of re in s starting at or after position from
RECURSIVE Exec(_, _, _, _)
Exec(re, s, ci, from) ==
  IF from > Len(s) + 1 THEN NoMatch
  ELSE Only({ IF r.ok THEN [ok |-> TRUE, start |-> from, end |-> r.end, caps |-> r.caps]
              ELSE Exec(re, s, ci, from + 1)
              : r \in {Match(re, 1, s, from, NoCaps, ci)} })

\* s.match(re) without the g flag, and re.test(s)
match(s, re, ci) == Exec(re, s, ci, 1)
test(re, s) == Exec(re, s, FALSE, 1).ok

\* the text of the whole match and of capture group g
Whole(s, m) == SubSeq(s, m.start, m.end - 1)
Group(s, m, g) == SubSeq(s, m.caps[g][1], m.caps[g][2] - 1)

\* s.match(re) with the g flag: the successive matches, left to right
RECURSIVE MatchesFrom(_, _, _, _)
MatchesFrom(s, re, ci, from) ==
  Only({ IF ~m.ok THEN <<>>
         ELSE <<m>> \o MatchesFrom(s, re, ci, IF m.end = m.start THEN m.end + 1 ELSE m.end)
         : m \in {Exec(re, s, ci, from)} })

matchAll(s, re, ci) == MatchesFrom(s, re, ci, 1)

\* s.replace(re, '') with the g flag
RECURSIVE RemoveFrom(_, _, _)
RemoveFrom(s, re, from) ==
  Only({ IF ~m.ok THEN SubSeq(s, from, Len(s))
         ELSE SubSeq(s, from, m.start - 1)
              \o RemoveFrom(s, re, IF m.end = m.start THEN m.end + 1 ELSE m.end)
         : m \in {Exec(re, s, FALSE, from)} })

removeAll(s, re) == RemoveFrom(s, re, 1)

\* s.replace(re, '') without the g flag: the first match only
removeFirst(s, re) ==
  Only({ IF ~m.ok THEN s ELSE SubSeq(s, 1, m.start - 1) \o SubSeq(s, m.end, Len(s))
         : m \in {Exec(re, s, FALSE, 1)} })

(***************************************************************************)
(* The keyword tables of the checker.                                      *)
(***************************************************************************)
KEYWORDS ==
  { "DECLARE", "CONSTANT", "TYPE", "ENDTYPE", "DEFINE",
    "INTEGER", "REAL", "CHAR", "STRING", "BOOLEAN", "DATE", "ARRAY", "OF", "SET",
    "IF", "THEN", "ELSE", "ENDIF", "ELSEIF",
    "CASE", "ENDCASE", "OTHERWISE",
    "FOR", "TO", "NEXT", "STEP",
    "WHILE", "ENDWHILE", "REPEAT", "UNTIL",
    "BREAK",
    "PROCEDURE", "ENDPROCEDURE", "FUNCTION", "ENDFUNCTION", "RETURN", "RETURNS",
    "CALL", "BYVAL", "BYREF",
    "INPUT", "OUTPUT",
    "OPENFILE", "READFILE", "WRITEFILE", "CLOSEFILE", "SEEK", "GETRECORD", "PUTRECORD",
    "AND", "OR", "NOT", "MOD", "DIV",
    "TRUE", "FALSE",
    "RIGHT", "LEFT", "LENGTH", "MID", "LCASE", "UCASE",
    "INT", "RAND" }

\* the openers, in the order of the object's keys, and the closer each requires
BlockOpeners == <<"IF", "FOR", "WHILE", "REPEAT", "PROCEDURE", "FUNCTION", "CASE", "TYPE">>

BLOCK_KEYWORDS ==
  [kw \in {BlockOpeners[i] : i \in 1..Len(BlockOpeners)} |->
     CASE kw = "IF" -> "ENDIF"
       [] kw = "FOR" -> "NEXT"
       [] kw = "WHILE" -> "ENDWHILE"
       [] kw = "REPEAT" -> "UNTIL"
       [] kw = "PROCEDURE" -> "ENDPROCEDURE"
       [] kw = "FUNCTION" -> "ENDFUNCTION"
       [] kw = "CASE" -> "ENDCASE"
       [] kw = "TYPE" -> "ENDTYPE"]

\* Object.values(BLOCK_KEYWORDS)
closingKeywords == {BLOCK_KEYWORDS[kw] : kw \in DOMAIN BLOCK_KEYWORDS}

invalidKeywords == {"CONTINUE", "DO", "SWITCH", "DEFAULT", "TRY", "CATCH"}

IndentUnit == 3

(***************************************************************************)
(* Diagnostics.                                                            *)
(***************************************************************************)
Err(n, msg) == [line |-> n, message |-> msg, type |-> "error"]
Warn(n, msg) == [line |-> n, message |-> msg, type |-> "warning"]

\* the diagnostics of a sequence of messages, all errors on line n
RECURSIVE ErrsOf(_, _)
ErrsOf(n, msgs) ==
  Only({ IF m = <<>> THEN <<>> ELSE <<Err(n, Head(m))>> \o ErrsOf(n, Tail(m)) : m \in {msgs} })

\* the concatenation of a sequence of sequences
RECURSIVE Flatten(_)
Flatten(ss) ==
  Only({ IF s = <<>> THEN <<>> ELSE Head(s) \o Flatten(Tail(s)) : s \in {ss} })

(***************************************************************************)
(* The regular expressions of the line pass, in source order.              *)
(***************************************************************************)
Quote == "\""
Apostrophe == "'"
Arrow == "←"

\* [a-zA-Z_][a-zA-Z0-9_]*  as capture group g
IdentG(g) == <<Open(g), One(IdStartSet), Star(WordSet), Close(g)>>

\* /\b(IF|WHILE|UNTIL)\b/
ReConditional == <<Wb, Alt(<<"IF", "WHILE", "UNTIL">>), Wb>>
\* /\b[a-zA-Z][a-zA-Z0-9_]*\b/g
ReIdentifier == <<Wb, One(LetterSet), Star(WordSet), Wb>>
\* /^\d/
ReLeadingDigit == <<Bol, One(DigitSet)>>
\* /^[a-zA-Z][a-zA-Z0-9_]*$/
ReIdentifierShape == <<Bol, One(LetterSet), Star(WordSet), Eol>>
\* /^[a-zA-Z_][a-zA-Z0-9_]*\s*←/  and  /^[a-zA-Z_][a-zA-Z0-9_]*\s*=/
ReAssignPattern == <<Bol, One(IdStartSet), Star(WordSet), Star(SpaceSet), Lit(Arrow)>>
ReConstPattern == <<Bol, One(IdStartSet), Star(WordSet), Star(SpaceSet), Lit("=")>>
\* /^[A-Z]+$/  and  /^[A-Z][A-Z0-9_]*$/
ReAllCaps == <<Bol, Plus(UpperSet), Eol>>
ReCapsIdentifier == <<Bol, One(UpperSet), Star(UpperSet \cup DigitSet \cup {"_"}), Eol>>
\* /\/\/.*$/ ,  /"[^"]*"/g  and  /'[^']*'/g
ReComment == <<Lit("//"), AnyStar, Eol>>
ReDoubleQuoted == <<Lit(Quote), NotStar({Quote}), Lit(Quote)>>
ReSingleQuoted == <<Lit(Apostrophe), NotStar({Apostrophe}), Lit(Apostrophe)>>
\* /^[a-zA-Z_][a-zA-Z0-9_]*$/
ReName == <<Bol, One(IdStartSet), Star(WordSet), Eol>>
\* /DECLARE\s+([a-zA-Z_][a-zA-Z0-9_]*)\s*:\s*ARRAY\[(\d+):(\d+)\]/i
ReArrayDeclare ==
  <<Lit("DECLARE"), Plus(SpaceSet)>> \o IdentG(1)
  \o <<Star(SpaceSet), Lit(":"), Star(SpaceSet), Lit("ARRAY["),
       Open(2), Plus(DigitSet), Close(2), Lit(":"),
       Open(3), Plus(DigitSet), Close(3), Lit("]")>>
\* /CONSTANT\s+([a-zA-Z_][a-zA-Z0-9_]*)\s*=/i
ReConstant == <<Lit("CONSTANT"), Plus(SpaceSet)>> \o IdentG(1) \o <<Star(SpaceSet), Lit("=")>>
\* /"/g
ReQuote == <<Lit(Quote)>>
\* /DECLARE\s+\w+\s*:\s*CHAR/
ReCharDeclare ==
  <<Lit("DECLARE"), Plus(SpaceSet), Plus(WordSet), Star(SpaceSet), Lit(":"),
    Star(SpaceSet), Lit("CHAR")>>
\* /([a-zA-Z_][a-zA-Z0-9_]*)\s*←\s*"[^"]*"/
ReStringAssign ==
  IdentG(1) \o <<Star(SpaceSet), Lit(Arrow), Star(SpaceSet)>> \o ReDoubleQuoted
\* /([a-zA-Z_][a-zA-Z0-9_]*)\[(\d+)\]/g
ReArrayAccess ==
  IdentG(1) \o <<Lit("["), Open(2), Plus(DigitSet), Close(2), Lit("]")>>
\* /^\s*([a-zA-Z_][a-zA-Z0-9_]*)\s*←/
ReAssignment == <<Bol, Star(SpaceSet)>> \o IdentG(1) \o <<Star(SpaceSet), Lit(Arrow)>>
\* /\b([a-zA-Z_][a-zA-Z0-9_]*)\b/g
ReVariable == <<Wb>> \o IdentG(1) \o <<Wb>>
\* /CALL\s+([a-zA-Z_][a-zA-Z0-9_]*)/i
ReCall == <<Lit("CALL"), Plus(SpaceSet)>> \o IdentG(1)
\* /OPENFILE\s+\S+\s+FOR\s+(\w+)/i
ReOpenfile ==
  <<Lit("OPENFILE"), Plus(SpaceSet), NotPlus(SpaceSet), Plus(SpaceSet), Lit("FOR"),
    Plus(SpaceSet), Open(1), Plus(WordSet), Close(1)>>
\* /FUNCTION\s+([a-zA-Z_][a-zA-Z0-9_]*)/i
ReFunctionName == <<Lit("FUNCTION"), Plus(SpaceSet)>> \o IdentG(1)
\* /FUNCTION\s+\w+\s*\((.*?)\)/i  and  /PROCEDURE\s+\w+\s*\((.*?)\)/i
ReParams(kw) ==
  <<Lit(kw), Plus(SpaceSet), Plus(WordSet), Star(SpaceSet), Lit("("),
    Open(1), AnyLazy, Close(1), Lit(")")>>
\* /LENGTH\s*\(\s*([a-zA-Z_][a-zA-Z0-9_]*)\s*\)/gi
ReLength ==
  <<Lit("LENGTH"), Star(SpaceSet), Lit("("), Star(SpaceSet)>> \o IdentG(1)
  \o <<Star(SpaceSet), Lit(")")>>

(***************************************************************************)
(* The rules of the line pass that read the text of the line only.  Each   *)
(* gives the messages (or the pieces of text) the rule finds in the        *)
(* trimmed line t; the line pass turns them into diagnostics.              *)
(***************************************************************************)
SeqToSet(q) == {q[i] : i \in 1..Len(q)}

\* trimmedLine === '' || trimmedLine.startsWith('//')
IsSkipped(line) == trim(line) = "" \/ startsWith(trim(line), "//")

\* (faulty variant: the guard forgets the comment test, so a comment counts as code)
hasActualCodeCountingComments(ls) == \E i \in 1..Len(ls) : trim(ls[i]) # ""

\* lines.some(...): the input has a line that is neither blank nor a comment
hasActualCode(ls) == \E i \in 1..Len(ls) : ~IsSkipped(ls[i])

leadingSpaces(line) == Len(line) - Len(trimStart(line))

BadIndentation(line) == leadingSpaces(line) % IndentUnit # 0

isInConditional(t) == test(ReConditional, t)

WrongAssignmentOperator(t) ==
  /\ includes(t, "=") /\ ~includes(t, "<=") /\ ~includes(t, ">=") /\ ~includes(t, "<>")
  /\ ~startsWith(t, "CONSTANT")
  /\ ~isInConditional(t) /\ ~includes(t, Arrow)

\* the texts of the matches of a global regular expression
MatchTexts(t, re) == LET ms == matchAll(t, re, FALSE) IN [i \in 1..Len(ms) |-> Whole(t, ms[i])]

identifierMatches(t) == MatchTexts(t, ReIdentifier)

IdentifierMessages(t) ==
  LET ids == identifierMatches(t)
      One1(id) ==
        IF toUpperCase(id) \in KEYWORDS THEN <<>>
        ELSE (IF test(ReLeadingDigit, id)
              THEN <<"Identifier '" \o id \o "' cannot start with a number">> ELSE <<>>)
             \o (IF ~test(ReIdentifierShape, id)
                 THEN <<"Identifier '" \o id \o "' contains invalid characters">> ELSE <<>>)
  IN Flatten([i \in 1..Len(ids) |-> One1(ids[i])])

words(t) == splitSpaces(t, "")

hasValidStructure(t) ==
  \/ \E i \in 1..Len(words(t)) : toUpperCase(words(t)[i]) \in KEYWORDS
  \/ includes(t, Arrow)
  \/ test(ReAssignPattern, t)
  \/ test(ReConstPattern, t)
  \/ includes(t, ":")

firstWord(t) == words(t)[1]

\* words[0].match(/^[A-Z]+$/): the first-word checks and the block stack run
FirstWordIsCaps(t) == test(ReAllCaps, firstWord(t))

\* (faulty variant: every all-capitals first word that is no keyword is unknown)
UnknownKeywordWithoutIdentifierTest(t) ==
  /\ FirstWordIsCaps(t)
  /\ firstWord(t) \notin KEYWORDS

\* the first word is all capitals, no keyword, and no capitals identifier either
UnknownKeyword(t) ==
  /\ FirstWordIsCaps(t)
  /\ firstWord(t) \notin KEYWORDS /\ ~test(ReCapsIdentifier, firstWord(t))

IsOpener(w) == w \in DOMAIN BLOCK_KEYWORDS

\* (faulty variant: only the END... words close a block, NEXT and UNTIL do not)
IsCloserEndWordsOnly(w) == w \in closingKeywords /\ startsWith(w, "END")

IsCloser(w) == w \in closingKeywords \/ w = "NEXT" \/ w = "UNTIL"

lineWithoutStrings(t) ==
  removeAll(removeAll(removeFirst(t, ReComment), ReDoubleQuoted), ReSingleQuoted)

wordsOutsideStrings(t) == splitSpaces(lineWithoutStrings(t), "")

LowercaseKeywordMessages(t) ==
  LET ws == wordsOutsideStrings(t)
      One1(w) ==
        IF toUpperCase(w) \in KEYWORDS /\ w # toUpperCase(w) /\ Len(w) > 0
        THEN <<"Keyword '" \o w \o "' should be uppercase: '" \o toUpperCase(w) \o "'">>
        ELSE <<>>
  IN Flatten([i \in 1..Len(ws) |-> One1(ws[i])])

InvalidKeywordMessages(t) ==
  LET ws == words(t)
      One1(w) ==
        IF toUpperCase(w) \in invalidKeywords
        THEN <<"'" \o w \o "' is not a valid Cambridge pseudocode keyword">>
        ELSE <<>>
  IN Flatten([i \in 1..Len(ws) |-> One1(ws[i])])

\* s.split(',').map(x => x.trim())
TrimAll(q) == [i \in 1..Len(q) |-> trim(q[i])]

\* the elements of q that are not the empty string and match /^[a-zA-Z_][a-zA-Z0-9_]*$/
RECURSIVE NamesOnly(_)
NamesOnly(q) ==
  IF q = <<>> THEN <<>>
  ELSE (IF Head(q) # "" /\ test(ReName, Head(q)) THEN <<Head(q)>> ELSE <<>>)
       \o NamesOnly(Tail(q))

\* trimmedLine.substring(7).trim(): the text after "DECLARE"
declarePart(t) == trim(SubSeq(t, 8, Len(t)))

beforeColon(t) ==
  LET d == declarePart(t) IN trim(SubSeq(d, 1, indexOf(d, ":") - 1))

afterColon(t) ==
  LET d == declarePart(t) IN trim(SubSeq(d, indexOf(d, ":") + 1, Len(d)))

\* the names of a DECLARE line with a colon that pass the identifier test, in order
variableNames(t) ==
  IF startsWith(t, "DECLARE") /\ includes(t, ":")
  THEN NamesOnly(TrimAll(split(beforeColon(t), ",")))
  ELSE <<>>

MissingColonMessages(t) ==
  IF startsWith(t, "DECLARE") /\ ~includes(t, ":")
  THEN <<"DECLARE statement must specify variable type with colon (:)">>
  ELSE <<>>

\* the array a DECLARE line with a colon registers: <<[name, start, end]>> or <<>>
arrayMatch(t) ==
  LET m == match(t, ReArrayDeclare, TRUE)
  IN IF startsWith(t, "DECLARE") /\ includes(t, ":") /\ m.ok
     THEN <<[name |-> toLowerCase(Group(t, m, 1)),
             start |-> parseInt(Group(t, m, 2)),
             end |-> parseInt(Group(t, m, 3))]>>
     ELSE <<>>

ConstantMessages(t) ==
  IF startsWith(t, "CONSTANT")
  THEN (IF ~includes(t, "=") THEN <<"CONSTANT must be assigned a value using =">> ELSE <<>>)
       \o (IF includes(t, Arrow) THEN <<"CONSTANT declarations use = not ←">> ELSE <<>>)
  ELSE <<>>

\* the constant a CONSTANT line registers: <<name>> or <<>>
constantMatch(t) ==
  LET m == match(t, ReConstant, TRUE)
  IN IF startsWith(t, "CONSTANT") /\ m.ok THEN <<Group(t, m, 1)>> ELSE <<>>

ArrayFormatMessages(t) ==
  IF startsWith(t, "DECLARE") /\ includes(t, "ARRAY")
  THEN (IF ~includes(t, "[") \/ ~includes(t, "]")
        THEN <<"ARRAY declaration must include index range in square brackets [start:end]">>
        ELSE <<>>)
       \o (IF ~includes(t, "OF")
           THEN <<"ARRAY declaration must include OF keyword">> ELSE <<>>)
  ELSE <<>>

ForFormatMessages(t) ==
  IF startsWith(t, "FOR") /\ (~includes(t, Arrow) \/ ~includes(t, "TO"))
  THEN <<"FOR loop must use format: FOR variable ← start TO end">>
  ELSE <<>>

CaseFormatMessages(t) ==
  IF startsWith(t, "CASE OF") /\ ~includes(t, "OF")
  THEN <<"CASE statement must use format: CASE OF variable">>
  ELSE <<>>

WhileParenMessages(t) ==
  IF startsWith(t, "WHILE") /\ includes(t, "(") /\ includes(t, ")")
  THEN <<"WHILE conditions should not use parentheses in Cambridge pseudocode">>
  ELSE <<>>

\* stringMatches && stringMatches.length % 2 !== 0
hasUnclosedString(t) == Len(matchAll(t, ReQuote, FALSE)) % 2 # 0

UnclosedStringMessages(t) ==
  IF hasUnclosedString(t) THEN <<"Unclosed string - missing closing quote">> ELSE <<>>

CharLiteralMessages(t) ==
  LET lits == MatchTexts(t, ReSingleQuoted)
      One1(lit) ==
        LET content == SubSeq(lit, 2, Len(lit) - 1)
        IN IF Len(content) = 0
           THEN <<"Empty CHAR literal - CHAR must contain exactly one character">>
           ELSE IF Len(content) > 1 /\ ~startsWith(content, "\\")
           THEN <<"CHAR literal can only contain one character. Use double quotes for strings">>
           ELSE <<>>
  IN Flatten([i \in 1..Len(lits) |-> One1(lits[i])])

CharDeclareMessages(t) ==
  IF test(ReCharDeclare, t) /\ includes(t, Quote)
  THEN <<"CHAR literals must use single quotes ('), not double quotes (\")">>
  ELSE <<>>

\* the variable a double-quoted literal is assigned to: <<name>> or <<>>
stringAssignMatch(t) ==
  LET m == match(t, ReStringAssign, FALSE)
  IN IF includes(t, Arrow) /\ m.ok THEN <<Group(t, m, 1)>> ELSE <<>>

\* the accesses name[digits] of the line, in order: [name, index]
arrayAccessMatch(t) ==
  LET ms == matchAll(t, ReArrayAccess, FALSE)
  IN [i \in 1..Len(ms) |->
        [name |-> Group(t, ms[i], 1), index |-> parseInt(Group(t, ms[i], 2))]]

\* the target of an assignment line: <<name>> or <<>>
assignmentMatch(t) ==
  LET m == match(t, ReAssignment, FALSE)
  IN IF includes(t, Arrow) /\ m.ok THEN <<Group(t, m, 1)>> ELSE <<>>

\* (faulty variant: the reference check also runs on a line with an unclosed string)
ChecksUsageDespiteUnclosedString(t) ==
  includes(t, "OUTPUT") \/ includes(t, "INPUT") \/ includes(t, "IF") \/ includes(t, "WHILE")

\* the reference check runs on this line
ChecksUsage(t) ==
  /\ ~hasUnclosedString(t)
  /\ (includes(t, "OUTPUT") \/ includes(t, "INPUT") \/ includes(t, "IF") \/ includes(t, "WHILE"))

\* the identifiers the reference check looks up: not a keyword, not followed by (
RECURSIVE UsageKeep(_, _)
UsageKeep(ids, lineToCheck) ==
  IF ids = <<>> THEN <<>>
  ELSE (IF \/ toUpperCase(Head(ids)) \in KEYWORDS
           \/ toUpperCase(Head(ids)) \in {"OUTPUT", "INPUT", "IF", "WHILE", "THEN"}
           \/ includes(lineToCheck, Head(ids) \o "(")
        THEN <<>> ELSE <<Head(ids)>>)
       \o UsageKeep(Tail(ids), lineToCheck)

variableMatches(t) ==
  IF ChecksUsage(t)
  THEN UsageKeep(MatchTexts(lineWithoutStrings(t), ReVariable), lineWithoutStrings(t))
  ELSE <<>>

\* the name a CALL line calls: <<name>> or <<>>
callMatch(t) ==
  LET m == match(t, ReCall, TRUE)
  IN IF startsWith(t, "CALL ") /\ m.ok THEN <<Group(t, m, 1)>> ELSE <<>>

OpenfileMessages(t) ==
  LET m == match(t, ReOpenfile, TRUE)
  IN IF ~startsWith(t, "OPENFILE") THEN <<>>
     ELSE IF m.ok
     THEN (IF toUpperCase(Group(t, m, 1)) \notin {"READ", "WRITE", "APPEND"}
           THEN <<"Invalid file mode '" \o toUpperCase(Group(t, m, 1))
                    \o "'. Valid modes are: READ, WRITE, APPEND">>
           ELSE <<>>)
     ELSE IF includes(t, "FOR")
     THEN <<"OPENFILE syntax should be: OPENFILE filename FOR mode (READ/write/append)">>
     ELSE <<>>

FunctionMessages(t) ==
  IF startsWith(t, "FUNCTION") /\ ~includes(t, "RETURNS")
  THEN <<"FUNCTION must specify return type with RETURNS">>
  ELSE <<>>

\* the name a FUNCTION line registers: <<name>> or <<>>
functionNameMatch(t) ==
  LET m == match(t, ReFunctionName, TRUE)
  IN IF startsWith(t, "FUNCTION") /\ m.ok THEN <<toLowerCase(Group(t, m, 1))>> ELSE <<>>

\* the parameters name: type of a parameter list, in order: [name, type]
RECURSIVE ParamsOf(_)
ParamsOf(params) ==
  IF params = <<>> THEN <<>>
  ELSE LET paramParts == split(trim(Head(params)), ":")
       IN (IF Len(paramParts) = 2 /\ trim(paramParts[1]) # ""
              /\ test(ReName, trim(paramParts[1]))
           THEN <<[name |-> trim(paramParts[1]), type |-> trim(paramParts[2])]>>
           ELSE <<>>)
          \o ParamsOf(Tail(params))

\* the parameters a FUNCTION or PROCEDURE line registers
paramMatch(t) ==
  LET kw == IF startsWith(t, "FUNCTION") THEN "FUNCTION" ELSE "PROCEDURE"
      m == match(t, ReParams(kw), TRUE)
  IN IF (startsWith(t, "FUNCTION") \/ startsWith(t, "PROCEDURE")) /\ m.ok
        /\ trim(Group(t, m, 1)) # ""
     THEN ParamsOf(split(Group(t, m, 1), ","))
     ELSE <<>>

\* the arguments of the LENGTH(name) uses of the line, lower-cased, in order
lengthMatches(t) ==
  LET ms == matchAll(t, ReLength, TRUE)
  IN [i \in 1..Len(ms) |-> toLowerCase(Group(t, ms[i], 1))]

(***************************************************************************)
(* The inputs.  An input is a string: lines of a small vocabulary joined   *)
(* by line feeds, at most MaxLines of them.  Each vocabulary exercises one *)
(* family of rules.                                                        *)
(***************************************************************************)
MaxLines == 3

VocabBlocksA ==
  { "IF x = 1 THEN", "ENDIF", "FOR i ← 1 TO 3", "NEXT i",
    "REPEAT", "UNTIL x = 1", "WHILE x < 3", "ENDWHILE" }

VocabBlocksB ==
  { "PROCEDURE p()", "ENDPROCEDURE", "FUNCTION f() RETURNS INTEGER", "ENDFUNCTION",
    "CASE OF x", "ENDCASE", "TYPE T", "ENDTYPE" }

VocabDeclare ==
  { "DECLARE x: INTEGER", "DECLARE x: STRING", "DECLARE X, y: INTEGER",
    "DECLARE y, y: REAL", "CONSTANT x = 5", "PROCEDURE p(y: REAL)", "x ← 5",
    "Y ← x", "OUTPUT x, y" }

VocabArray ==
  { "DECLARE a: ARRAY[1:5] OF INTEGER", "DECLARE a: ARRAY[3:8] OF INTEGER",
    "DECLARE b: ARRAY[2:2] OF STRING", "OUTPUT a[0]", "OUTPUT a[5], b[2]",
    "a[6] ← b[3]", "OUTPUT A[1], a[10]" }

VocabMisc ==
  { "", "   ", "// note", " x = 5", "FOR i ← 1 TO 3", "ENDFOR",
    "   OUTPUT \"hi", "foo bar" }

\* the declare / assign / output sequence on two variable names
VocabExample ==
  { "DECLARE x: INTEGER", "x ← 5", "OUTPUT x",
    "DECLARE FORMAT: INTEGER", "FORMAT ← 5", "OUTPUT FORMAT" }

\* references inside and outside string literals, comments and call syntax
VocabUsage ==
  { "DECLARE t: REAL", "OUTPUT sqrt(t), t", "OUTPUT \"hi\", y, T", "OUTPUT \"hi, y",
    "y ← \"hi", "WHILE t < n // n" }

\* headers with parameters, uses of the parameters, and CALL lines
VocabParams ==
  { "PROCEDURE p(BYREF y: REAL)", "FUNCTION f(n: INTEGER) RETURNS INTEGER",
    "y ← 1", "OUTPUT Y, n", "CALL F(1)", "CALL p" }

\* LENGTH of variables of several types, before and after their declaration
VocabLength ==
  { "DECLARE n: INTEGER", "DECLARE n: STRING", "DECLARE q: ARRAY[1:5] OF CHAR",
    "OUTPUT LENGTH(s), length( N )", "OUTPUT LENGTH(q), LENGTH(r)", "// LENGTH(n)" }

\* a FOR loop closed at once or after a blank line, and an assignment written "="
\* on a line that also compares
VocabLoop == { "FOR i ← 1 TO 3", "", "NEXT i", "x = y <= 5" }

\* a parameter used after its block is closed, an IF line with no condition, and
\* an array named by a keyword
VocabScope ==
  { "FUNCTION f(n: INTEGER) RETURNS INTEGER", "ENDFUNCTION", "OUTPUT Y, n", "IF", "ENDIF",
    "DECLARE step: ARRAY[1:2] OF CHAR" }

Vocabularies ==
  {VocabBlocksA, VocabBlocksB, VocabDeclare, VocabArray, VocabMisc, VocabExample,
   VocabUsage, VocabParams, VocabLength, VocabLoop, VocabScope}

AllLines == UNION Vocabularies

\* the inputs of at most MaxLines lines of vocabulary V
InputsOver(V) ==
  {join(ls, "\n") : ls \in UNION {[1..k -> V] : k \in 1..MaxLines}}

\* the opener line and the closer line of each of the eight kinds of block
BlockPairs ==
  { <<"IF x = 1 THEN", "ENDIF">>, <<"FOR i ← 1 TO 3", "NEXT i">>,
    <<"WHILE x < 3", "ENDWHILE">>, <<"REPEAT", "UNTIL x = 1">>,
    <<"PROCEDURE p()", "ENDPROCEDURE">>, <<"FUNCTION f() RETURNS INTEGER", "ENDFUNCTION">>,
    <<"CASE OF x", "ENDCASE">>, <<"TYPE T", "ENDTYPE">> }

MaxPairs == 2

\* the sequences of k blocks, side by side or one inside the other, each closed
\* by its own closer
RECURSIVE Nested(_)
Nested(k) ==
  IF k = 0 THEN {<<>>}
  ELSE UNION { { <<p[1]>> \o inner \o <<p[2]>> \o rest :
                   p \in BlockPairs, inner \in Nested(i), rest \in Nested(k - 1 - i) }
               : i \in 0..(k - 1) }

NestedInputs == {join(ls, "\n") : ls \in UNION {Nested(k) : k \in 1..MaxPairs}}

Inputs == UNION {InputsOver(V) : V \in Vocabularies} \cup NestedInputs

(***************************************************************************)
(* What the rules read in the text of a line, computed once per line of    *)
(* the vocabulary: the rules above are functions of the text alone.        *)
(***************************************************************************)
LineFacts(line) ==
  Only({
     IF IsSkipped(line)
     THEN [skip |-> TRUE, trimmedLine |-> t, lengths |-> lengthMatches(t)]
     ELSE [ skip |-> FALSE,
            trimmedLine |-> t,
            badIndent |-> BadIndentation(line),
            head |-> (IF WrongAssignmentOperator(t)
                      THEN <<"Use ← for assignment instead of = (Cambridge rule)">>
                      ELSE <<>>)
                     \o IdentifierMessages(t)
                     \o (IF ~hasValidStructure(t)
                         THEN <<"This line does not appear to be valid pseudocode. Use Cambridge keywords and proper syntax.">>
                         ELSE <<>>)
                     \o (IF UnknownKeyword(t)
                         THEN <<"Unknown keyword: " \o firstWord(t)>> ELSE <<>>),
            caps |-> FirstWordIsCaps(t),
            firstWord |-> firstWord(t),
            mid |-> LowercaseKeywordMessages(t) \o InvalidKeywordMessages(t)
                    \o MissingColonMessages(t),
            names |-> variableNames(t),
            afterColon |-> IF variableNames(t) = <<>> THEN "" ELSE afterColon(t),
            arrays |-> arrayMatch(t),
            constMsgs |-> ConstantMessages(t),
            constant |-> constantMatch(t),
            fmt |-> ArrayFormatMessages(t) \o ForFormatMessages(t)
                    \o CaseFormatMessages(t) \o WhileParenMessages(t)
                    \o UnclosedStringMessages(t) \o CharLiteralMessages(t)
                    \o CharDeclareMessages(t),
            stringAssign |-> stringAssignMatch(t),
            accesses |-> arrayAccessMatch(t),
            assignment |-> assignmentMatch(t),
            usage |-> variableMatches(t),
            call |-> callMatch(t),
            openfile |-> OpenfileMessages(t),
            isFor |-> startsWith(t, "FOR"),
            functionMsgs |-> FunctionMessages(t),
            functionName |-> functionNameMatch(t),
            params |-> paramMatch(t),
            lengths |-> lengthMatches(t) ]
     : t \in {trim(line)} })

\* (@@ makes TLC tabulate the function once, at startup)
Facts == [line \in AllLines |-> LineFacts(line)] @@ <<>>

(***************************************************************************)
(* The scan-local tables.  A Map is a function; set() adds or overwrites.  *)
(***************************************************************************)
EmptyMap == [k \in {} |-> 0]

MapSet(m, k, v) == [x \in DOMAIN m \cup {k} |-> IF x = k THEN v ELSE m[x]]

(***************************************************************************)
(* The rules of the line pass that read or write the tables.               *)
(***************************************************************************)
\* (faulty variant: a closer that does not match abandons every open block)
BlockStepClearingOnMismatch(stack, fw, n) ==
  LET pushed == IF IsOpener(fw) THEN Append(stack, [keyword |-> fw, line |-> n]) ELSE stack
  IN IF ~IsCloser(fw) THEN [stack |-> pushed, errs |-> <<>>]
     ELSE IF Len(pushed) = 0
     THEN [stack |-> pushed,
           errs |-> <<Err(n, "Unexpected " \o fw \o " without matching opening")>>]
     ELSE LET lastBlock == pushed[Len(pushed)]
              expectedClosing == BLOCK_KEYWORDS[lastBlock.keyword]
          IN IF /\ fw # expectedClosing
                /\ ~(lastBlock.keyword = "FOR" /\ fw = "NEXT")
                /\ ~(lastBlock.keyword = "REPEAT" /\ fw = "UNTIL")
             THEN [stack |-> <<>>,
                   errs |-> <<Err(n, "Expected " \o expectedClosing \o " but found " \o fw)>>]
             ELSE [stack |-> SubSeq(pushed, 1, Len(pushed) - 1), errs |-> <<>>]

\* (faulty variant: a closer that does not match the innermost open block is
\* reported and the block is left open)
BlockStepKeepingOnMismatch(stack, fw, n) ==
  LET pushed == IF IsOpener(fw) THEN Append(stack, [keyword |-> fw, line |-> n]) ELSE stack
  IN IF ~IsCloser(fw) THEN [stack |-> pushed, errs |-> <<>>]
     ELSE IF Len(pushed) = 0
     THEN [stack |-> pushed,
           errs |-> <<Err(n, "Unexpected " \o fw \o " without matching opening")>>]
     ELSE LET lastBlock == pushed[Len(pushed)]
              expectedClosing == BLOCK_KEYWORDS[lastBlock.keyword]
          IN IF fw # expectedClosing
             THEN [stack |-> pushed,
                   errs |-> <<Err(n, "Expected " \o expectedClosing \o " but found " \o fw)>>]
             ELSE [stack |-> SubSeq(pushed, 1, Len(pushed) - 1), errs |-> <<>>]

\* the block stack on a line whose first word fw is all capitals
BlockStep(stack, fw, n) ==
  LET pushed == IF IsOpener(fw) THEN Append(stack, [keyword |-> fw, line |-> n]) ELSE stack
  IN IF ~IsCloser(fw) THEN [stack |-> pushed, errs |-> <<>>]
     ELSE IF Len(pushed) = 0
     THEN [stack |-> pushed,
           errs |-> <<Err(n, "Unexpected " \o fw \o " without matching opening")>>]
     ELSE LET lastBlock == pushed[Len(pushed)]
              expectedClosing == BLOCK_KEYWORDS[lastBlock.keyword]
          IN [stack |-> SubSeq(pushed, 1, Len(pushed) - 1),
              errs |-> IF /\ fw # expectedClosing
                          /\ ~(lastBlock.keyword = "FOR" /\ fw = "NEXT")
                          /\ ~(lastBlock.keyword = "REPEAT" /\ fw = "UNTIL")
                       THEN <<Err(n, "Expected " \o expectedClosing \o " but found " \o fw)>>
                       ELSE <<>>]

\* (faulty variant: the name is registered before the table is consulted, so a
\* first declaration is reported as a redeclaration of itself)
DeclareOneRegisteringFirst(varName, type, n, st) ==
  IF toUpperCase(varName) \in KEYWORDS
  THEN [st EXCEPT !.errs = @ \o <<Err(n, "'" \o varName
           \o "' is a reserved keyword and cannot be used as a variable name")>>]
  ELSE IF toLowerCase(varName) \in st.dv
  THEN [st EXCEPT !.errs = @ \o <<Warn(n, "Variable '" \o varName
           \o "' already declared on line "
           \o ToString(st.vt[toLowerCase(varName)].line))>>]
  ELSE [st EXCEPT !.dv = @ \cup {toLowerCase(varName)},
                  !.vt = MapSet(@, toLowerCase(varName), [type |-> type, line |-> n]),
                  !.errs = @ \o <<Warn(n, "Variable '" \o varName
                              \o "' already declared on line " \o ToString(n))>>]

\* (faulty variant: a redeclaration with a different type replaces the entry of
\* the table: the last registration wins)
DeclareOneLastWins(varName, type, n, st) ==
  LET varNameLower == toLowerCase(varName)
  IN IF toUpperCase(varName) \in KEYWORDS
     THEN [st EXCEPT !.errs = @ \o <<Err(n, "'" \o varName
              \o "' is a reserved keyword and cannot be used as a variable name")>>]
     ELSE IF varNameLower \in st.dv
     THEN IF varNameLower \in DOMAIN st.vt /\ st.vt[varNameLower].type # type
          THEN [st EXCEPT !.errs = @ \o <<Err(n, "Variable '" \o varName
                   \o "' redeclared with different type. Previously declared as "
                   \o st.vt[varNameLower].type \o " on line "
                   \o ToString(st.vt[varNameLower].line))>>,
                          !.vt = MapSet(@, varNameLower, [type |-> type, line |-> n])]
          ELSE [st EXCEPT !.errs = @ \o <<Warn(n, "Variable '" \o varName
                   \o "' already declared on line "
                   \o (IF varNameLower \in DOMAIN st.vt
                       THEN ToString(st.vt[varNameLower].line) ELSE "unknown"))>>]
     ELSE [st EXCEPT !.dv = @ \cup {varNameLower},
                     !.vt = MapSet(@, varNameLower, [type |-> type, line |-> n])]

\* one name of a DECLARE list: reserved, redeclared, or registered
DeclareOne(varName, type, n, st) ==
  LET varNameLower == toLowerCase(varName)
  IN IF toUpperCase(varName) \in KEYWORDS
     THEN [st EXCEPT !.errs = @ \o <<Err(n, "'" \o varName
              \o "' is a reserved keyword and cannot be used as a variable name")>>]
     ELSE IF varNameLower \in st.dv
     THEN IF varNameLower \in DOMAIN st.vt /\ st.vt[varNameLower].type # type
          THEN [st EXCEPT !.errs = @ \o <<Err(n, "Variable '" \o varName
                   \o "' redeclared with different type. Previously declared as "
                   \o st.vt[varNameLower].type \o " on line "
                   \o ToString(st.vt[varNameLower].line))>>]
          ELSE [st EXCEPT !.errs = @ \o <<Warn(n, "Variable '" \o varName
                   \o "' already declared on line "
                   \o (IF varNameLower \in DOMAIN st.vt
                       THEN ToString(st.vt[varNameLower].line) ELSE "unknown"))>>]
     ELSE [st EXCEPT !.dv = @ \cup {varNameLower},
                     !.vt = MapSet(@, varNameLower, [type |-> type, line |-> n])]

\* variableNames.forEach: the names of a DECLARE list, left to right
RECURSIVE DeclareStep(_, _, _, _)
DeclareStep(names, type, n, st) ==
  IF names = <<>> THEN st
  ELSE DeclareStep(Tail(names), type, n, DeclareOne(Head(names), type, n, st))

\* (faulty variant: the bounds of the first declaration of an array are kept)
RegisterArrayKeepingFirst(ad, arrays, n) ==
  IF arrays = <<>> \/ arrays[1].name \in DOMAIN ad THEN ad
  ELSE MapSet(ad, arrays[1].name,
              [start |-> arrays[1].start, end |-> arrays[1].end, line |-> n])

\* arrayDeclarations.set(...) of a DECLARE line that matches the array pattern
RegisterArray(ad, arrays, n) ==
  IF arrays = <<>> THEN ad
  ELSE MapSet(ad, arrays[1].name,
              [start |-> arrays[1].start, end |-> arrays[1].end, line |-> n])

\* (faulty variant: the CONSTANT line starts the symbol table afresh)
RegisterConstantAfresh(st, constant, n) ==
  IF constant = <<>> THEN st
  ELSE [st EXCEPT !.dv = {toLowerCase(constant[1])},
                  !.vt = MapSet(EmptyMap, toLowerCase(constant[1]),
                                [type |-> "CONSTANT", line |-> n])]

\* a CONSTANT line registers its name with the type CONSTANT
RegisterConstant(st, constant, n) ==
  IF constant = <<>> THEN st
  ELSE [st EXCEPT !.dv = @ \cup {toLowerCase(constant[1])},
                  !.vt = MapSet(@, toLowerCase(constant[1]),
                                [type |-> "CONSTANT", line |-> n])]

\* a double-quoted literal assigned to a variable of type CHAR
CharAssignCheck(stringAssign, vt, n) ==
  IF stringAssign # <<>> /\ toLowerCase(stringAssign[1]) \in DOMAIN vt
     /\ toUpperCase(vt[toLowerCase(stringAssign[1])].type) = "CHAR"
  THEN <<Err(n, "CHAR variable '" \o stringAssign[1]
            \o "' must use single quotes (') for character literals, not double quotes (\")")>>
  ELSE <<>>

\* (faulty variant: the upper bound is taken as exclusive)
BoundsOneExclusiveEnd(access, ad, n) ==
  IF toLowerCase(access.name) \in DOMAIN ad
     /\ (access.index < ad[toLowerCase(access.name)].start
         \/ access.index >= ad[toLowerCase(access.name)].end)
  THEN <<Err(n, "Array index " \o ToString(access.index) \o " is out of bounds. Array '"
            \o access.name \o "' valid range is ["
            \o ToString(ad[toLowerCase(access.name)].start)
            \o ":" \o ToString(ad[toLowerCase(access.name)].end) \o "]")>>
  ELSE <<>>

\* one access name[index] against the declared bounds of the array
BoundsOne(access, ad, n) ==
  LET arrayName == toLowerCase(access.name)
  IN IF arrayName \in DOMAIN ad
        /\ (access.index < ad[arrayName].start \/ access.index > ad[arrayName].end)
     THEN <<Err(n, "Array index " \o ToString(access.index) \o " is out of bounds. Array '"
               \o access.name \o "' valid range is [" \o ToString(ad[arrayName].start)
               \o ":" \o ToString(ad[arrayName].end) \o "]")>>
     ELSE <<>>

BoundsCheck(accesses, ad, n) ==
  Flatten([i \in 1..Len(accesses) |-> BoundsOne(accesses[i], ad, n)])

UndeclaredMessage(varName) == "Variable '" \o varName \o "' must be declared before use"

\* (faulty variant: the target is looked up as written, not lower-cased)
AssignmentCheckCaseSensitive(assignment, dv, n) ==
  IF assignment # <<>> /\ assignment[1] \notin dv
  THEN <<Err(n, UndeclaredMessage(assignment[1]))>>
  ELSE <<>>

\* the target of an assignment must be declared
AssignmentCheck(assignment, dv, n) ==
  IF assignment # <<>> /\ toLowerCase(assignment[1]) \notin dv
  THEN <<Err(n, UndeclaredMessage(assignment[1]))>>
  ELSE <<>>

\* the identifiers of an OUTPUT, INPUT, IF or WHILE line must be declared
UsageCheck(usage, dv, n) ==
  Flatten([i \in 1..Len(usage) |->
             IF toLowerCase(usage[i]) \notin dv
             THEN <<Err(n, UndeclaredMessage(usage[i]))>> ELSE <<>>])

\* (faulty variant: the called name is looked up as written)
CallCheckCaseSensitive(call, df, n) ==
  IF call # <<>> /\ call[1] \in df
  THEN <<Err(n, "CALL should not be used with functions. Use function calls directly: "
            \o call[1] \o "(...)")>>
  ELSE <<>>

\* CALL of a name registered by a FUNCTION line
CallCheck(call, df, n) ==
  IF call # <<>> /\ toLowerCase(call[1]) \in df
  THEN <<Err(n, "CALL should not be used with functions. Use function calls directly: "
            \o call[1] \o "(...)")>>
  ELSE <<>>

\* lines.findIndex(...): the first line after the line of 0-based index at that
\* starts with ENDFOR, as a 1-based line number; 0 when there is none
endforLine(ls, at) ==
  LET later == {i \in (at + 2)..Len(ls) : startsWith(Facts[ls[i]].trimmedLine, "ENDFOR")}
  IN IF later = {} THEN 0 ELSE CHOOSE i \in later : \A j \in later : i <= j

\* (faulty variant: the 1-based line number is converted once more)
EndforCheckOffByOne(isFor, ls, at) ==
  IF isFor /\ endforLine(ls, at) # 0
  THEN <<Err(endforLine(ls, at) + 1, "FOR loops must end with NEXT, not ENDFOR")>>
  ELSE <<>>

\* a FOR line flags the first later ENDFOR line
EndforCheck(isFor, ls, at) ==
  IF isFor /\ endforLine(ls, at) # 0
  THEN <<Err(endforLine(ls, at), "FOR loops must end with NEXT, not ENDFOR")>>
  ELSE <<>>

\* params.forEach: declaredVariables.add and variableTypes.set of each parameter
RECURSIVE RegisterParams(_, _, _)
RegisterParams(st, params, n) ==
  IF params = <<>> THEN st
  ELSE RegisterParams(
         [st EXCEPT !.dv = @ \cup {toLowerCase(Head(params).name)},
                    !.vt = MapSet(@, toLowerCase(Head(params).name),
                                  [type |-> Head(params).type, line |-> n])],
         Tail(params), n)

(***************************************************************************)
(* The sweeps after the line pass, and the deduplication.                  *)
(***************************************************************************)
\* (faulty variant: only the innermost open block is reported)
UnmatchedBlocksInnermost(stack) ==
  IF stack = <<>> THEN <<>>
  ELSE <<Err(stack[Len(stack)].line, "Unmatched " \o stack[Len(stack)].keyword
             \o " - missing " \o BLOCK_KEYWORDS[stack[Len(stack)].keyword])>>

\* (faulty variant: the open blocks are reported innermost first)
UnmatchedBlocksInnermostFirst(stack) ==
  [i \in 1..Len(stack) |->
     Err(stack[Len(stack) + 1 - i].line,
         "Unmatched " \o stack[Len(stack) + 1 - i].keyword \o " - missing "
         \o BLOCK_KEYWORDS[stack[Len(stack) + 1 - i].keyword])]

\* blockStack.forEach: one error for each block left open, outermost first
UnmatchedBlocks(stack) ==
  [i \in 1..Len(stack) |->
     Err(stack[i].line, "Unmatched " \o stack[i].keyword \o " - missing "
                        \o BLOCK_KEYWORDS[stack[i].keyword])]

\* the closers the extra-closer sweep looks at, and the opener it counts for each
SweepClosers == {"ENDIF", "ENDWHILE", "ENDPROCEDURE", "ENDFUNCTION", "ENDCASE", "ENDTYPE"}

SweepOpener(closer) == CHOOSE kw \in DOMAIN BLOCK_KEYWORDS : BLOCK_KEYWORDS[kw] = closer

trimmed(ls, i) == Facts[ls[i]].trimmedLine

\* (faulty variant: a closer is extra as soon as the closers seen equal the openers)
ExtraOneAtEqualCounts(ls, i) ==
  LET t == trimmed(ls, i)
      openCount == Cardinality({j \in 1..i : startsWith(trimmed(ls, j), SweepOpener(t) \o " ")})
      closeCount == Cardinality({j \in 1..i : trimmed(ls, j) = t})
  IN IF t \in SweepClosers /\ closeCount >= openCount
     THEN <<Err(i, "Extra " \o t \o " - no matching opening block")>>
     ELSE <<>>

\* a closer line is extra when, up to it, its closers outnumber the openers
ExtraOne(ls, i) ==
  LET t == trimmed(ls, i)
      openCount == Cardinality({j \in 1..i : startsWith(trimmed(ls, j), SweepOpener(t) \o " ")})
      closeCount == Cardinality({j \in 1..i : trimmed(ls, j) = t})
  IN IF t \in SweepClosers /\ closeCount > openCount
     THEN <<Err(i, "Extra " \o t \o " - no matching opening block")>>
     ELSE <<>>

ExtraClosers(ls) == Flatten([i \in 1..Len(ls) |-> ExtraOne(ls, i)])

\* (faulty variant: LENGTH is accepted on STRING variables only)
LengthOneStringOnly(name, vt, n) ==
  IF name \in DOMAIN vt
     /\ ~includes(toUpperCase(vt[name].type), "STRING")
  THEN <<Err(n, "LENGTH() can only be used with STRING or ARRAY variables, not "
            \o vt[name].type)>>
  ELSE <<>>

\* one LENGTH(name): an error if the recorded type is neither STRING nor ARRAY
LengthOne(name, vt, n) ==
  IF name \in DOMAIN vt
     /\ ~includes(toUpperCase(vt[name].type), "STRING")
     /\ ~includes(toUpperCase(vt[name].type), "ARRAY")
  THEN <<Err(n, "LENGTH() can only be used with STRING or ARRAY variables, not "
            \o vt[name].type)>>
  ELSE <<>>

LengthSweep(ls, vt) ==
  Flatten([i \in 1..Len(ls) |->
             Flatten([k \in 1..Len(Facts[ls[i]].lengths) |->
                        LengthOne(Facts[ls[i]].lengths[k], vt, i)])])

\* the forward scan from the line after a FOR line (i: the 1-based number of the
\* line looked at): the number of the first line that starts with "NEXT ", 0 when
\* the scan ends or is stopped by another control structure first
RECURSIVE nextLineIndex(_, _)
nextLineIndex(ls, i) ==
  IF i > Len(ls) THEN 0
  ELSE IF startsWith(trimmed(ls, i), "NEXT ") THEN i
  ELSE IF \/ startsWith(trimmed(ls, i), "FOR ") \/ startsWith(trimmed(ls, i), "WHILE ")
          \/ startsWith(trimmed(ls, i), "IF ") \/ startsWith(trimmed(ls, i), "PROCEDURE ")
          \/ startsWith(trimmed(ls, i), "FUNCTION ")
  THEN 0
  ELSE nextLineIndex(ls, i + 1)

EmptyLoopOne(ls, i) ==
  IF /\ startsWith(trimmed(ls, i), "FOR ") /\ includes(trimmed(ls, i), " TO ")
     /\ nextLineIndex(ls, i + 1) # 0 /\ nextLineIndex(ls, i + 1) = i + 1
  THEN <<Warn(i, "Empty FOR loop body - consider adding statements or removing the loop")>>
  ELSE <<>>

EmptyLoops(ls) == Flatten([i \in 1..Len(ls) |-> EmptyLoopOne(ls, i)])

\* the key `${error.line}:${error.message}`; the line number holds no colon, so two
\* diagnostics have the same key exactly when they have the same line and message
errorKey(e) == ToString(e.line) \o ":" \o e.message

\* keep the first diagnostic of each key, in order
RECURSIVE DedupFrom(_, _)
DedupFrom(errs, errorKeys) ==
  IF errs = <<>> THEN <<>>
  ELSE Only({ IF key \in errorKeys THEN DedupFrom(Tail(errs), errorKeys)
              ELSE <<Head(errs)>> \o DedupFrom(Tail(errs), errorKeys \cup {key})
              : key \in {errorKey(Head(errs))} })

\* (faulty variant: the collected diagnostics are returned as they are)
deduplicateNothing(errs) == errs

deduplicate(errs) == DedupFrom(errs, {})

\* (faulty variant: the severity filter is left out, so a warning invalidates)
isValidOfAnyDiagnostic(errs) == Len(errs) = 0

\* uniqueErrors.filter(e => e.type === 'error').length === 0
isValidOf(errs) == Cardinality({i \in 1..Len(errs) : errs[i].type = "error"}) = 0

(***************************************************************************)
(* The state machine: one call of checkSyntax, step by step.               *)
(*   pc = "guard"     the tables are allocated, the emptiness guard is next*)
(*   pc = "scan"      the line pass is at the line of 0-based index `index`*)
(*   pc = "unmatched", "extra", "length", "emptyLoops": the sweep is next  *)
(*   pc = "dedup"     deduplication and return are next                    *)
(*   pc = "done"      the call has returned `result`                       *)
(* ran counts the line callbacks and the sweeps run in this call; first    *)
(* maps each input a call has returned on to the result of the first such  *)
(* call; calls counts the calls entered so far.                            *)
(***************************************************************************)
NoneRan == [callbacks |-> 0, unmatched |-> 0, extra |-> 0, length |-> 0,
            emptyLoops |-> 0, dedup |-> 0]

\* (faulty variant: the tables are shared by the calls instead of allocated in each)
StartKeepingTables(c) ==
  /\ code' = c
  /\ lines' = split(c, "\n")
  /\ pc' = "guard"
  /\ index' = 0
  /\ errors' = <<>>
  /\ result' = <<>>
  /\ ran' = NoneRan
  /\ UNCHANGED <<blockStack, arrayDeclarations, declaredVariables, variableTypes,
                 declaredFunctions>>

\* the entry of checkSyntax(c): the diagnostics and the tables are allocated empty
Start(c) ==
  /\ code' = c
  /\ lines' = split(c, "\n")
  /\ pc' = "guard"
  /\ index' = 0
  /\ errors' = <<>>
  /\ blockStack' = <<>>
  /\ arrayDeclarations' = EmptyMap
  /\ declaredVariables' = {}
  /\ variableTypes' = EmptyMap
  /\ declaredFunctions' = {}
  /\ result' = <<>>
  /\ ran' = NoneRan

\* the state at the entry of the first call, on an input of the set S
InitOver(S) ==
  /\ code \in S
  /\ lines = split(code, "\n")
  /\ pc = "guard"
  /\ index = 0
  /\ errors = <<>>
  /\ blockStack = <<>>
  /\ arrayDeclarations = EmptyMap
  /\ declaredVariables = {}
  /\ variableTypes = EmptyMap
  /\ declaredFunctions = {}
  /\ result = <<>>
  /\ ran = NoneRan
  /\ first = EmptyMap
  /\ calls = 1

Init == InitOver(Inputs)

tables == <<blockStack, arrayDeclarations, declaredVariables, variableTypes,
            declaredFunctions>>

\* return r: the call is over
Return(r) ==
  /\ result' = <<r>>
  /\ pc' = "done"
  /\ first' = IF code \in DOMAIN first THEN first ELSE MapSet(first, code, r)
  /\ UNCHANGED calls

\* the emptiness guard finds no code: one error, and the early return
EmptinessReturn ==
  /\ pc = "guard"
  /\ ~hasActualCode(lines)
  /\ errors' = Append(errors,
       Err(1, "No pseudocode content found. Please write some pseudocode."))
  /\ Return([isValid |-> FALSE, errors |-> errors'])
  /\ UNCHANGED <<code, lines, index, tables, ran>>

\* the emptiness guard finds code: the line pass begins
EmptinessPass ==
  /\ pc = "guard"
  /\ hasActualCode(lines)
  /\ pc' = "scan"
  /\ UNCHANGED <<code, lines, index, errors, tables, result, ran, first, calls>>

\* (faulty variant: a line met after a diagnostic was pushed ends the scan and
\* the sweeps are skipped)
AfterLineAbortingOnError ==
  /\ index' = index + 1
  /\ pc' = IF errors # <<>> THEN "dedup"
           ELSE IF index + 1 = Len(lines) THEN "unmatched" ELSE "scan"
  /\ ran' = [ran EXCEPT !.callbacks = @ + 1]

\* where the line pass goes after the line of 0-based index `index`
AfterLine ==
  /\ index' = index + 1
  /\ pc' = IF index + 1 = Len(lines) THEN "unmatched" ELSE "scan"
  /\ ran' = [ran EXCEPT !.callbacks = @ + 1]

\* the callback of the line pass on a blank or comment line: it returns at once
SkipLine ==
  /\ pc = "scan"
  /\ Facts[lines[index + 1]].skip
  /\ AfterLine
  /\ UNCHANGED <<code, lines, errors, tables, result, first, calls>>

\* the diagnostics and the tables after the callback of the line pass on line n
LineEffect(f, n, ls, st) ==
  LET blk == IF f.caps THEN BlockStep(st.stack, f.firstWord, n)
             ELSE [stack |-> st.stack, errs |-> <<>>]
      dec == DeclareStep(f.names, f.afterColon, n, [dv |-> st.dv, vt |-> st.vt, errs |-> <<>>])
      ad == RegisterArray(st.ad, f.arrays, n)
      con == RegisterConstant(dec, f.constant, n)
      fin == RegisterParams(con, f.params, n)
  IN [ stack |-> blk.stack,
       ad |-> ad,
       dv |-> fin.dv,
       vt |-> fin.vt,
       df |-> st.df \cup SeqToSet(f.functionName),
       errs |-> (IF f.badIndent
                 THEN <<Warn(n, "Indentation should be multiples of 3 spaces")>> ELSE <<>>)
                \o ErrsOf(n, f.head)
                \o blk.errs
                \o ErrsOf(n, f.mid)
                \o dec.errs
                \o ErrsOf(n, f.constMsgs)
                \o ErrsOf(n, f.fmt)
                \o CharAssignCheck(f.stringAssign, con.vt, n)
                \o BoundsCheck(f.accesses, ad, n)
                \o AssignmentCheck(f.assignment, con.dv, n)
                \o UsageCheck(f.usage, con.dv, n)
                \o CallCheck(f.call, st.df, n)
                \o ErrsOf(n, f.openfile)
                \o EndforCheck(f.isFor, ls, n - 1)
                \o ErrsOf(n, f.functionMsgs) ]

\* the callback of the line pass on a line of code
ProcessLine ==
  /\ pc = "scan"
  /\ ~Facts[lines[index + 1]].skip
  /\ \E eff \in {LineEffect(Facts[lines[index + 1]], index + 1, lines,
                             [stack |-> blockStack, ad |-> arrayDeclarations,
                              dv |-> declaredVariables, vt |-> variableTypes,
                              df |-> declaredFunctions])} :
        /\ errors' = errors \o eff.errs
        /\ blockStack' = eff.stack
        /\ arrayDeclarations' = eff.ad
        /\ declaredVariables' = eff.dv
        /\ variableTypes' = eff.vt
        /\ declaredFunctions' = eff.df
  /\ AfterLine
  /\ UNCHANGED <<code, lines, result, first, calls>>

\* blockStack.forEach: one error for each block left open
SweepUnmatched ==
  /\ pc = "unmatched"
  /\ errors' = errors \o UnmatchedBlocks(blockStack)
  /\ pc' = "extra"
  /\ ran' = [ran EXCEPT !.unmatched = @ + 1]
  /\ UNCHANGED <<code, lines, index, tables, result, first, calls>>

SweepExtraClosers ==
  /\ pc = "extra"
  /\ errors' = errors \o ExtraClosers(lines)
  /\ pc' = "length"
  /\ ran' = [ran EXCEPT !.extra = @ + 1]
  /\ UNCHANGED <<code, lines, index, tables, result, first, calls>>

SweepLength ==
  /\ pc = "length"
  /\ errors' = errors \o LengthSweep(lines, variableTypes)
  /\ pc' = "emptyLoops"
  /\ ran' = [ran EXCEPT !.length = @ + 1]
  /\ UNCHANGED <<code, lines, index, tables, result, first, calls>>

SweepEmptyLoops ==
  /\ pc = "emptyLoops"
  /\ errors' = errors \o EmptyLoops(lines)
  /\ pc' = "dedup"
  /\ ran' = [ran EXCEPT !.emptyLoops = @ + 1]
  /\ UNCHANGED <<code, lines, index, tables, result, first, calls>>

\* the deduplication and the normal return
DeduplicateAndReturn ==
  /\ pc = "dedup"
  /\ Return([isValid |-> isValidOf(deduplicate(errors)), errors |-> deduplicate(errors)])
  /\ ran' = [ran EXCEPT !.dedup = @ + 1]
  /\ UNCHANGED <<code, lines, index, errors, tables>>

Next ==
  \/ EmptinessReturn
  \/ EmptinessPass
  \/ SkipLine
  \/ ProcessLine
  \/ SweepUnmatched
  \/ SweepExtraClosers
  \/ SweepLength
  \/ SweepEmptyLoops
  \/ DeduplicateAndReturn

Spec == Init /\ [][Next]_vars

\* a call runs to its return once entered: the function is synchronous and every
\* loop of it is bounded by the number of lines or of diagnostics
FairSpec == Spec /\ WF_vars(Next)

(***************************************************************************)
(* Several calls, one after the other (handleCheckSyntax calls checkSyntax *)
(* each time the user asks for a check; JavaScript runs a call to its      *)
(* return before the next begins).                                         *)
(***************************************************************************)
MaxCalls == 3

CallInputs ==
  { "", "// note\nx ← 5", "DECLARE x: INTEGER", "x ← 5\nOUTPUT x, y", "IF x = 1 THEN",
    "ENDIF", "DECLARE a: ARRAY[1:5] OF INTEGER", "OUTPUT a[0]" }

InitCalls == InitOver(CallInputs)

\* the next call, on any input, after the previous one has returned
Call ==
  /\ pc = "done"
  /\ calls < MaxCalls
  /\ \E c \in CallInputs : Start(c)
  /\ calls' = calls + 1
  /\ UNCHANGED first

NextCalls == Next \/ Call

SpecCalls == InitCalls /\ [][NextCalls]_vars

(***************************************************************************)
(* Properties of the checker.                                              *)
(***************************************************************************)
\* the diagnostic e is among errs
Has(errs, e) == \E i \in 1..Len(errs) : errs[i] = e

\* the diagnostics of errs on line n whose message begins with prefix
OnLineWith(errs, n, prefix) ==
  {i \in 1..Len(errs) : errs[i].line = n /\ startsWith(errs[i].message, prefix)}

\* the call went through the line pass and the sweeps and has returned
ReturnedNormally == pc = "done" /\ ran.dedup = 1

\* every line of ls is blank or a comment
OnlyBlankOrComment(ls) ==
  \A i \in 1..Len(ls) : trimmed(ls, i) = "" \/ startsWith(trimmed(ls, i), "//")

EmptinessError ==
  [line |-> 1, message |-> "No pseudocode content found. Please write some pseudocode.",
   type |-> "error"]

\* C1: a returned result is valid exactly when none of its diagnostics has the
\* severity error, on the early return of the emptiness guard and on the normal
\* return alike; warnings do not make a result invalid.
C1_ValidIffNoError ==
  pc = "done" =>
    (result[1].isValid <=>
       \A i \in 1..Len(result[1].errors) : result[1].errors[i].type # "error")

\* C1 witness: a returned result that holds a warning and is valid
C1_Witness ==
  /\ ReturnedNormally
  /\ result[1].isValid
  /\ \E i \in 1..Len(result[1].errors) : result[1].errors[i].type = "warning"

\* C2: on an input whose lines are all blank or comments the call returns invalid
\* with the emptiness error on line 1 as its only diagnostic, and no callback of
\* the line pass and no sweep runs: the block stack and the symbol, array and
\* function tables stay as allocated.
C2_EmptinessOnly ==
  OnlyBlankOrComment(lines) =>
    /\ pc \in {"guard", "done"}
    /\ ran = NoneRan
    /\ blockStack = <<>> /\ arrayDeclarations = EmptyMap /\ declaredVariables = {}
    /\ variableTypes = EmptyMap /\ declaredFunctions = {}
    /\ pc = "done" => result = <<[isValid |-> FALSE, errors |-> <<EmptinessError>>]>>

\* C2 witness: the call has returned on an input of a blank line and a comment line
C2_Witness ==
  /\ pc = "done"
  /\ Len(lines) >= 2
  /\ OnlyBlankOrComment(lines)
  /\ \E i \in 1..Len(lines) : startsWith(trimmed(lines, i), "//")
  /\ \E i \in 1..Len(lines) : trimmed(lines, i) = ""

\* the openers and closers of the block structure
OpenerWords == {"IF", "FOR", "WHILE", "REPEAT", "PROCEDURE", "FUNCTION", "CASE", "TYPE"}

CloserWords ==
  {"ENDIF", "NEXT", "ENDWHILE", "UNTIL", "ENDPROCEDURE", "ENDFUNCTION", "ENDCASE", "ENDTYPE"}

\* the first token of line i of ls; "" on a blank or comment line
firstToken(ls, i) == IF Facts[ls[i]].skip THEN "" ELSE Facts[ls[i]].firstWord

\* the number of blocks open after the first n lines of ls, by the stack
\* discipline: an opener opens one, a closer closes one if one is open
RECURSIVE openAfter(_, _)
openAfter(ls, n) ==
  IF n = 0 THEN 0
  ELSE IF firstToken(ls, n) \in OpenerWords THEN openAfter(ls, n - 1) + 1
  ELSE IF firstToken(ls, n) \in CloserWords /\ openAfter(ls, n - 1) > 0
       THEN openAfter(ls, n - 1) - 1
  ELSE openAfter(ls, n - 1)

\* C3: in the result of a call that went through the line pass, the number of
\* "Unmatched <opener>" diagnostics is the number of entries left on the block
\* stack after the last line, each on the line of its opener, and every closer
\* line met while no block is open has exactly one "Unexpected <closer>"
\* diagnostic.
C3_StackDiscipline ==
  ReturnedNormally =>
    /\ Len(blockStack) = openAfter(lines, Len(lines))
    /\ Cardinality({i \in 1..Len(result[1].errors) :
                      startsWith(result[1].errors[i].message, "Unmatched ")})
         = Len(blockStack)
    /\ \A k \in 1..Len(blockStack) :
         /\ firstToken(lines, blockStack[k].line) = blockStack[k].keyword
         /\ Cardinality(OnLineWith(result[1].errors, blockStack[k].line,
                                   "Unmatched " \o blockStack[k].keyword \o " ")) = 1
    /\ \A n \in 1..Len(lines) :
         (firstToken(lines, n) \in CloserWords /\ openAfter(lines, n - 1) = 0) =>
           /\ Cardinality(OnLineWith(result[1].errors, n, "Unexpected ")) = 1
           /\ Has(result[1].errors,
                  [line |-> n, type |-> "error",
                   message |-> "Unexpected " \o firstToken(lines, n)
                               \o " without matching opening"])

\* C3 witness: a result with a closer met on an empty stack and two blocks left open
C3_Witness ==
  /\ ReturnedNormally
  /\ Len(blockStack) = 2
  /\ \E n \in 1..Len(lines) : OnLineWith(result[1].errors, n, "Unexpected ") # {}

\* C4: no two diagnostics of a result have the same line and the same message, and
\* deduplicating the result again changes nothing.
C4_NoDuplicates ==
  pc = "done" =>
    /\ \A i, j \in 1..Len(result[1].errors) :
         (/\ result[1].errors[i].line = result[1].errors[j].line
          /\ result[1].errors[i].message = result[1].errors[j].message) => i = j
    /\ deduplicate(result[1].errors) = result[1].errors
    /\ deduplicate(deduplicate(errors)) = deduplicate(errors)

\* C4 witness: the rules reported one defect twice and the result holds it once
C4_Witness ==
  /\ ReturnedNormally
  /\ Len(result[1].errors) < Len(errors)

\* the names of the DECLARE list of line i of ls, as written
declareNames(ls, i) == IF Facts[ls[i]].skip THEN <<>> ELSE Facts[ls[i]].names

\* where the name v (lower-cased) occurs in the DECLARE lists of ls: <<line, position>>
declareOccurrences(ls, v) ==
  {p \in UNION {{<<i, k>> : k \in 1..Len(declareNames(ls, i))} : i \in 1..Len(ls)} :
     toLowerCase(declareNames(ls, p[1])[p[2]]) = v}

\* the names the DECLARE lists of ls hold, as written
writtenNames(ls) == UNION {SeqToSet(declareNames(ls, i)) : i \in 1..Len(ls)}

\* a CONSTANT definition or a FUNCTION/PROCEDURE parameter of a line before line n
\* has the name v (lower-cased)
registeredEarlier(ls, n, v) ==
  \E m \in 1..(n - 1) :
    /\ ~Facts[ls[m]].skip
    /\ \/ /\ Facts[ls[m]].constant # <<>>
          /\ toLowerCase(Facts[ls[m]].constant[1]) = v
       \/ \E k \in 1..Len(Facts[ls[m]].params) :
            toLowerCase(Facts[ls[m]].params[k].name) = v

\* errs holds a redeclaration diagnostic (the error or the warning) for the name v
redeclared(errs, ls, v) ==
  \E i \in 1..Len(errs) : \E w \in writtenNames(ls) :
    /\ toLowerCase(w) = v
    /\ \/ startsWith(errs[i].message,
                     "Variable '" \o w \o "' redeclared with different type.")
       \/ startsWith(errs[i].message, "Variable '" \o w \o "' already declared on line ")

\* C5 as stated: a name that occurs once in the DECLARE lists of the input has no
\* redeclaration diagnostic, whatever CONSTANT definitions and FUNCTION/PROCEDURE
\* parameters the input holds.
C5_DeclaredOnceAsStated ==
  pc = "done" =>
    \A w \in writtenNames(lines) :
      Cardinality(declareOccurrences(lines, toLowerCase(w))) = 1
        => ~redeclared(result[1].errors, lines, toLowerCase(w))

\* C5 as amended: a name that occurs once (without regard to case) in the DECLARE
\* lists of the input, and that no CONSTANT definition and no FUNCTION/PROCEDURE
\* parameter of an earlier line has, has no redeclaration diagnostic.
C5_DeclaredOnce ==
  pc = "done" =>
    \A w \in writtenNames(lines) :
      (/\ Cardinality(declareOccurrences(lines, toLowerCase(w))) = 1
       /\ \A p \in declareOccurrences(lines, toLowerCase(w)) :
            ~registeredEarlier(lines, p[1], toLowerCase(w)))
        => ~redeclared(result[1].errors, lines, toLowerCase(w))

\* C5 witness: x is declared once, before a CONSTANT definition of x, and the
\* result holds no redeclaration diagnostic for it
C5_Witness ==
  /\ ReturnedNormally
  /\ lines = <<"DECLARE x: INTEGER", "CONSTANT x = 5">>
  /\ ~redeclared(result[1].errors, lines, "x")

\* C6: the callback of a line "<identifier> ← ..." pushes the error "Variable
\* '<identifier>' must be declared before use" for that line exactly when the
\* lower-cased identifier is not in the symbol table as the earlier lines left it.
C6_AssignmentTarget ==
  [][ (/\ pc = "scan"
       /\ ~Facts[lines[index + 1]].skip
       /\ Facts[lines[index + 1]].assignment # <<>>
       /\ ~startsWith(trimmed(lines, index + 1), "DECLARE")
       /\ ~startsWith(trimmed(lines, index + 1), "CONSTANT"))
      => (Has(SubSeq(errors', Len(errors) + 1, Len(errors')),
              [line |-> index + 1, type |-> "error",
               message |-> "Variable '" \o Facts[lines[index + 1]].assignment[1]
                           \o "' must be declared before use"])
          <=> toLowerCase(Facts[lines[index + 1]].assignment[1]) \notin declaredVariables)
    ]_vars

\* C6 witness: Y is assigned before and after its declaration; the result holds
\* the error for line 1 and not for line 3
C6_Witness ==
  /\ ReturnedNormally
  /\ lines = <<"Y ← x", "DECLARE X, y: INTEGER", "Y ← x">>
  /\ Has(result[1].errors, Err(1, "Variable 'Y' must be declared before use"))
  /\ ~Has(result[1].errors, Err(3, "Variable 'Y' must be declared before use"))

\* the lines up to line n of ls that declare the array a (lower-cased)
arrayDeclaresUpTo(ls, n, a) ==
  {m \in 1..n : /\ ~Facts[ls[m]].skip
                /\ Facts[ls[m]].arrays # <<>>
                /\ Facts[ls[m]].arrays[1].name = a}

\* the last of a non-empty set of line numbers
lastOf(S) == CHOOSE m \in S : \A k \in S : k <= m

\* C7: an access name[k] on a line at or after a DECLARE of the array name with
\* the bounds lo:hi (the latest such DECLARE) has the out-of-bounds error naming
\* [lo:hi] on its line exactly when k < lo or k > hi; an access to a name that no
\* DECLARE up to that line made an array has no out-of-bounds error.
C7_ArrayBounds ==
  ReturnedNormally =>
    \A n \in 1..Len(lines) : ~Facts[lines[n]].skip =>
      \A k \in 1..Len(Facts[lines[n]].accesses) :
        LET access == Facts[lines[n]].accesses[k]
            declares == arrayDeclaresUpTo(lines, n, toLowerCase(access.name))
            declared == Facts[lines[lastOf(declares)]].arrays[1]
        IN IF declares = {}
           THEN OnLineWith(result[1].errors, n,
                           "Array index " \o ToString(access.index)
                           \o " is out of bounds. Array '" \o access.name \o "'") = {}
           ELSE Has(result[1].errors,
                    [line |-> n, type |-> "error",
                     message |-> "Array index " \o ToString(access.index)
                                 \o " is out of bounds. Array '" \o access.name
                                 \o "' valid range is [" \o ToString(declared.start)
                                 \o ":" \o ToString(declared.end) \o "]"])
                <=> (access.index < declared.start \/ access.index > declared.end)

\* C7 witness: a[5] and b[2] sit on their upper bounds and are not reported, a[0]
\* is below the lower bound and is
C7_Witness ==
  /\ ReturnedNormally
  /\ lines = <<"DECLARE a: ARRAY[1:5] OF INTEGER", "OUTPUT a[5], b[2]", "OUTPUT a[0]">>
  /\ OnLineWith(result[1].errors, 2, "Array index ") = {}
  /\ Has(result[1].errors,
         Err(3, "Array index 0 is out of bounds. Array 'a' valid range is [1:5]"))

\* C8: a call returns, on its input, the result the first call on that input
\* returned, whatever calls were made in between.
C8_Stateless ==
  pc = "done" => (code \in DOMAIN first /\ result = <<first[code]>>)

\* C8 witness: the third call has returned, on one of two inputs called so far
C8_Witness ==
  /\ pc = "done"
  /\ calls = 3
  /\ code = "x ← 5\nOUTPUT x, y"
  /\ DOMAIN first = {"DECLARE x: INTEGER", "x ← 5\nOUTPUT x, y"}

\* the input has a line that is neither blank nor a comment
hasCode(ls) == ~OnlyBlankOrComment(ls)

\* C9: every call returns, and when it has, the result is there and, unless the
\* emptiness guard returned early, the callback of the line pass ran once for
\* each line and each sweep and the deduplication ran once.
C9_RunsToCompletion ==
  /\ <>(pc = "done")
  /\ [](pc = "done" =>
          /\ Len(result) = 1
          /\ ran = IF hasCode(lines)
                   THEN [callbacks |-> Len(lines), unmatched |-> 1, extra |-> 1,
                         length |-> 1, emptyLoops |-> 1, dedup |-> 1]
                   ELSE NoneRan)

\* C9 witness: line 1 has an error and the lines after it were processed all the same
C9_Witness ==
  /\ pc = "done"
  /\ Len(lines) >= 3
  /\ ran.callbacks = Len(lines)
  /\ \E i \in 1..Len(result[1].errors) :
       result[1].errors[i].line = 1 /\ result[1].errors[i].type = "error"
  /\ \E i \in 1..Len(result[1].errors) : result[1].errors[i].line = Len(lines)

\* C10: the line number of every diagnostic, collected or returned, is between 1
\* and the number of lines of the input.
C10_LineNumbers ==
  /\ \A i \in 1..Len(errors) : errors[i].line \in 1..Len(lines)
  /\ pc = "done" =>
       \A i \in 1..Len(result[1].errors) : result[1].errors[i].line \in 1..Len(lines)

\* C10 witness: the last line is an ENDFOR reported from the FOR line before it,
\* and the FOR is reported as unmatched after the scan
C10_Witness ==
  /\ ReturnedNormally
  /\ Len(lines) >= 2
  /\ Has(result[1].errors, Err(Len(lines), "FOR loops must end with NEXT, not ENDFOR"))
  /\ OnLineWith(result[1].errors, Len(lines) - 1, "Unmatched FOR") # {}

\* the three-line input that declares v, assigns it a literal and outputs it
declareAssignOutput(v) ==
  <<"DECLARE " \o v \o ": INTEGER", v \o " ← 5", "OUTPUT " \o v>>

\* the variable names of the example inputs: none is a keyword
ExampleNames == {v \in {"x", "FORMAT"} : toUpperCase(v) \notin KEYWORDS}

\* C11 (as stated): the three-line input that declares one non-keyword variable,
\* assigns it an integer literal and outputs it, unindented and with upper-case
\* keywords, is valid and has no diagnostic at all.
C11_ExampleIsClean ==
  \A v \in ExampleNames :
    (pc = "done" /\ lines = declareAssignOutput(v)) =>
      result[1] = [isValid |-> TRUE, errors |-> <<>>]

\* the closer each opener requires
requiredCloser ==
  [w \in OpenerWords |->
     CASE w = "IF" -> "ENDIF" [] w = "FOR" -> "NEXT" [] w = "WHILE" -> "ENDWHILE"
       [] w = "REPEAT" -> "UNTIL" [] w = "PROCEDURE" -> "ENDPROCEDURE"
       [] w = "FUNCTION" -> "ENDFUNCTION" [] w = "CASE" -> "ENDCASE"
       [] w = "TYPE" -> "ENDTYPE"]

\* the lines of the openers still open after the first n lines of ls, outermost
\* first, by the stack discipline
RECURSIVE openLines(_, _)
openLines(ls, n) ==
  IF n = 0 THEN <<>>
  ELSE IF firstToken(ls, n) \in OpenerWords THEN Append(openLines(ls, n - 1), n)
  ELSE IF firstToken(ls, n) \in CloserWords /\ openLines(ls, n - 1) # <<>>
       THEN SubSeq(openLines(ls, n - 1), 1, Len(openLines(ls, n - 1)) - 1)
  ELSE openLines(ls, n - 1)

\* the diagnostics the step has pushed
pushedByStep == SubSeq(errors', Len(errors) + 1, Len(errors'))

\* C12: the step that processes a line whose first token is a closer, while the
\* block stack is not empty, pops exactly the top entry of the stack, whether or
\* not the closer matches it, and pushes the error "Expected <required> but found
\* <actual>" on the closer's line exactly when the closer is not the one the popped
\* opener requires; in the result no "Unmatched" diagnostic is on the line of an
\* opener that was popped.
C12_CloserPopsTop ==
  /\ [][(/\ pc = "scan"
          /\ firstToken(lines, index + 1) \in CloserWords
          /\ blockStack # <<>>)
        => LET n == index + 1
               actual == firstToken(lines, n)
               top == blockStack[Len(blockStack)]
               required == requiredCloser[top.keyword]
               expected == Err(n, "Expected " \o required \o " but found " \o actual)
           IN /\ blockStack' = SubSeq(blockStack, 1, Len(blockStack) - 1)
              /\ top.line = openLines(lines, index)[Len(blockStack)]
              /\ firstToken(lines, top.line) = top.keyword
              /\ Has(pushedByStep, expected) <=> actual # required
              /\ \A i \in OnLineWith(pushedByStep, n, "Expected ") :
                    pushedByStep[i] = expected
              /\ Cardinality(OnLineWith(pushedByStep, n, "Expected ")) <= 1]_vars
  /\ [](ReturnedNormally =>
         \A n \in 1..Len(lines) :
           (firstToken(lines, n) \in CloserWords /\ openLines(lines, n - 1) # <<>>) =>
             OnLineWith(result[1].errors,
                        openLines(lines, n - 1)[Len(openLines(lines, n - 1))],
                        "Unmatched ") = {})

\* C12 witness: a result where a closer that did not match popped the only open
\* block: the mismatch is reported on the closer's line and no block is unmatched
C12_Witness ==
  /\ ReturnedNormally
  /\ blockStack = <<>>
  /\ \E n \in 2..Len(lines) :
       /\ firstToken(lines, n - 1) \in OpenerWords
       /\ firstToken(lines, n) \in CloserWords
       /\ firstToken(lines, n) # requiredCloser[firstToken(lines, n - 1)]
       /\ OnLineWith(result[1].errors, n, "Expected ") # {}
       /\ OnLineWith(result[1].errors, n - 1, "Unmatched ") = {}

\* the opener and closer lines of ls are properly nested: every closer meets an
\* open block whose opener requires it, and no block is left open
properlyNested(ls) ==
  /\ \A n \in 1..Len(ls) :
       firstToken(ls, n) \in CloserWords =>
         /\ openLines(ls, n - 1) # <<>>
         /\ requiredCloser[firstToken(ls, openLines(ls, n - 1)[Len(openLines(ls, n - 1))])]
              = firstToken(ls, n)
  /\ openLines(ls, Len(ls)) = <<>>

\* the deepest nesting of blocks in ls
nestingDepth(ls) ==
  LET D == {Len(openLines(ls, n)) : n \in 0..Len(ls)}
  IN CHOOSE d \in D : \A e \in D : e <= d

\* C13: on an input whose opener and closer lines are properly nested, at any
\* depth and for each of the eight pairs (FOR/NEXT and REPEAT/UNTIL included), the
\* block stack is empty after the last line and the result has no "Unexpected",
\* no "Expected ... but found" and no "Unmatched" diagnostic.
C13_ProperNestingIsSilent ==
  (ReturnedNormally /\ properlyNested(lines)) =>
    /\ blockStack = <<>>
    /\ \A i \in 1..Len(result[1].errors) :
         /\ ~startsWith(result[1].errors[i].message, "Unexpected ")
         /\ ~startsWith(result[1].errors[i].message, "Expected ")
         /\ ~startsWith(result[1].errors[i].message, "Unmatched ")

\* C13 witness: a result on a properly nested input with a FOR/NEXT block inside a
\* REPEAT/UNTIL block
C13_Witness ==
  /\ ReturnedNormally
  /\ properlyNested(lines)
  /\ nestingDepth(lines) = 2
  /\ firstToken(lines, 1) = "REPEAT" /\ firstToken(lines, 2) = "FOR"
  /\ firstToken(lines, 3) = "NEXT" /\ firstToken(lines, 4) = "UNTIL"

\* the identifier tokens of the text s, each with the position that follows it
identifierTokens(s) ==
  LET ms == matchAll(s, ReVariable, FALSE)
  IN {<<Whole(s, ms[i]), ms[i].end>> : i \in 1..Len(ms)}

\* the bare identifiers of the line of text t: outside string and character
\* literals and comments, not a keyword, not immediately followed by (
bareIdentifiers(t) ==
  LET s == lineWithoutStrings(t)
  IN {k[1] : k \in {j \in identifierTokens(s) :
                      /\ toUpperCase(j[1]) \notin KEYWORDS
                      /\ (j[2] > Len(s) \/ Ch(s, j[2]) # "(")}}

bareIdentifiersOf == [line \in AllLines |-> bareIdentifiers(trim(line))] @@ <<>>

\* the line of text t mentions OUTPUT, INPUT, IF or WHILE
mentionsStatement(t) ==
  includes(t, "OUTPUT") \/ includes(t, "INPUT") \/ includes(t, "IF") \/ includes(t, "WHILE")

\* the number of double quotes of the text t
RECURSIVE quotes(_)
quotes(t) ==
  IF t = "" THEN 0
  ELSE (IF Ch(t, 1) = Quote THEN 1 ELSE 0) + quotes(SubSeq(t, 2, Len(t)))

quotesOf == [line \in AllLines |-> quotes(line)] @@ <<>>

\* C14 (as stated): the step that processes a line that mentions OUTPUT, INPUT, IF
\* or WHILE and has an even number of double quotes pushes, for every bare
\* identifier of the line that is not a keyword and is not immediately followed by
\* "(", the error "Variable '<name>' must be declared before use" exactly when the
\* lower-cased name is not in the symbol table (a line that itself declares is left
\* aside: its own registration runs before the check).
C14_ReferenceCheck ==
  [][ (/\ pc = "scan"
       /\ ~Facts[lines[index + 1]].skip
       /\ mentionsStatement(trimmed(lines, index + 1))
       /\ quotesOf[lines[index + 1]] % 2 = 0
       /\ ~startsWith(trimmed(lines, index + 1), "DECLARE")
       /\ ~startsWith(trimmed(lines, index + 1), "CONSTANT"))
      => \A v \in bareIdentifiersOf[lines[index + 1]] :
           Has(pushedByStep, Err(index + 1, "Variable '" \o v \o "' must be declared before use"))
             <=> toLowerCase(v) \notin declaredVariables
    ]_vars

\* the entry of the name v (lower-cased) when position k of the DECLARE list
\* names on line n, of type text type, is reached: the entry the table holds, or
\* the one an earlier position of the same list has registered; <<>> if none
entryBefore(names, k, type, n, v) ==
  IF v \in declaredVariables THEN <<variableTypes[v]>>
  ELSE IF \E j \in 1..(k - 1) : /\ toLowerCase(names[j]) = v
                                /\ toUpperCase(names[j]) \notin KEYWORDS
  THEN <<[type |-> type, line |-> n]>>
  ELSE <<>>

\* C15: the step that processes a DECLARE line handles each non-keyword name of
\* its list, compared in lower case, as follows.  If the name is in the symbol
\* table with a different type text, the error "redeclared with different type"
\* is pushed, naming the recorded type and line; if it is there with the same type
\* text, the warning "already declared" is pushed; in both cases the entry of the
\* table is the one it was.  If the name is not there, it is registered with the
\* type text and the line of this DECLARE.
C15_FirstRegistrationWins ==
  [][ (/\ pc = "scan"
       /\ declareNames(lines, index + 1) # <<>>)
      => LET n == index + 1
             names == declareNames(lines, n)
             type == Facts[lines[n]].afterColon
         IN \A k \in 1..Len(names) :
              toUpperCase(names[k]) \notin KEYWORDS =>
                LET w == names[k]
                    v == toLowerCase(w)
                    before == entryBefore(names, k, type, n, v)
                    different ==
                      Err(n, "Variable '" \o w
                             \o "' redeclared with different type. Previously declared as "
                             \o before[1].type \o " on line " \o ToString(before[1].line))
                    same ==
                      Warn(n, "Variable '" \o w \o "' already declared on line "
                              \o ToString(before[1].line))
                IN /\ v \in declaredVariables' /\ v \in DOMAIN variableTypes'
                   /\ (before # <<>> /\ before[1].type # type) =>
                        /\ Has(pushedByStep, different)
                        /\ ~Has(pushedByStep, same)
                        /\ variableTypes'[v] = before[1]
                   /\ (before # <<>> /\ before[1].type = type) =>
                        /\ Has(pushedByStep, same)
                        /\ ~Has(pushedByStep, different)
                        /\ variableTypes'[v] = before[1]
                   /\ before = <<>> =>
                        /\ variableTypes'[v] = [type |-> type, line |-> n]
                        /\ v \notin declaredVariables
                        /\ (\A j \in 1..Len(names) : toLowerCase(names[j]) = v => j = k)
                             => \A i \in 1..Len(pushedByStep) :
                                  /\ ~startsWith(pushedByStep[i].message,
                                                 "Variable '" \o w \o "' redeclared")
                                  /\ ~startsWith(pushedByStep[i].message,
                                                 "Variable '" \o w \o "' already declared")
    ]_vars

\* C15 witness: x is declared INTEGER, then STRING, then (as X) INTEGER again: the
\* result has the error on line 2 and the warning on line 3, and the table still
\* holds the first registration
C15_Witness ==
  /\ ReturnedNormally
  /\ lines = <<"DECLARE x: INTEGER", "DECLARE x: STRING", "DECLARE X, y: INTEGER">>
  /\ Has(result[1].errors,
         Err(2, "Variable 'x' redeclared with different type. Previously declared as INTEGER on line 1"))
  /\ Has(result[1].errors, Warn(3, "Variable 'X' already declared on line 1"))
  /\ variableTypes["x"] = [type |-> "INTEGER", line |-> 1]
  /\ variableTypes["y"] = [type |-> "INTEGER", line |-> 3]

\* the last element of a non-empty sequence
lastWord(ws) == ws[Len(ws)]

\* the colon-typed parameters between the first "(" of the text t and the ")" that
\* follows it, as [name, type]: the name is the identifier before the colon (after
\* a passing mode such as BYREF, if any), the type is the text after the colon
headerParameters(t) ==
  IF ~includes(t, "(") THEN {}
  ELSE LET rest == SubSeq(t, indexOf(t, "(") + 1, Len(t))
       IN IF ~includes(rest, ")") THEN {}
          ELSE LET pieces == split(SubSeq(rest, 1, indexOf(rest, ")") - 1), ",")
               IN { [name |-> lastWord(splitSpaces(trim(SubSeq(pieces[i], 1,
                                            indexOf(pieces[i], ":") - 1)), "")),
                     type |-> trim(SubSeq(pieces[i], indexOf(pieces[i], ":") + 1,
                                          Len(pieces[i])))]
                    : i \in {j \in 1..Len(pieces) : includes(pieces[j], ":")} }

headerParametersOf ==
  [line \in AllLines |->
     IF firstWord(trim(line)) \in {"FUNCTION", "PROCEDURE"}
     THEN headerParameters(trim(line)) ELSE {}] @@ <<>>

\* the identifiers written on each line
identifiersOf ==
  [line \in AllLines |-> {k[1] : k \in identifierTokens(trim(line))}] @@ <<>>

\* C16 (as stated): the step that processes a FUNCTION or PROCEDURE header
\* registers every colon-typed parameter of its parenthesized list in the symbol
\* table with its type, and adds the name of a FUNCTION, and of no PROCEDURE, to
\* the function set; in the result no later line has the undeclared-use error for
\* a parameter.
C16_ParametersRegistered ==
  /\ [][ (/\ pc = "scan"
          /\ firstToken(lines, index + 1) \in {"FUNCTION", "PROCEDURE"})
         => /\ \A q \in headerParametersOf[lines[index + 1]] :
                 /\ toLowerCase(q.name) \in declaredVariables'
                 /\ toLowerCase(q.name) \in DOMAIN variableTypes'
                 /\ variableTypes'[toLowerCase(q.name)].type = q.type
            /\ firstToken(lines, index + 1) = "PROCEDURE"
                 => declaredFunctions' = declaredFunctions
            /\ firstToken(lines, index + 1) = "FUNCTION"
                 => /\ Facts[lines[index + 1]].functionName # <<>>
                    /\ declaredFunctions' = declaredFunctions
                          \cup {Facts[lines[index + 1]].functionName[1]}
       ]_vars
  /\ [](ReturnedNormally =>
         \A n \in 1..Len(lines) : \A q \in headerParametersOf[lines[n]] :
           \A m \in (n + 1)..Len(lines) : \A u \in identifiersOf[lines[m]] :
             toLowerCase(u) = toLowerCase(q.name) =>
               ~Has(result[1].errors,
                    Err(m, "Variable '" \o u \o "' must be declared before use")))

\* the text s up to its first "(", or all of it
beforeParenthesis(s) == IF includes(s, "(") THEN SubSeq(s, 1, indexOf(s, "(") - 1) ELSE s

\* the second word of each line, up to its first "(": the name a header declares,
\* the name a CALL line calls ("" if the line has one word)
secondWordOf ==
  [line \in AllLines |->
     IF Len(words(trim(line))) >= 2 THEN beforeParenthesis(words(trim(line))[2]) ELSE ""] @@ <<>>

\* a FUNCTION header on a line before line n of ls declares the name v (lower-cased)
functionDeclaredBefore(ls, n, v) ==
  \E m \in 1..(n - 1) :
    firstToken(ls, m) = "FUNCTION" /\ toLowerCase(secondWordOf[ls[m]]) = v

\* C17: in the result, a line "CALL <name>" has the error "CALL should not be used
\* with functions" exactly when a FUNCTION header on a strictly earlier line
\* declares <name>, compared in lower case; a CALL that precedes the FUNCTION
\* header, and a CALL of a name that only a PROCEDURE header declares, have none.
C17_CallOfFunction ==
  ReturnedNormally =>
    \A n \in 1..Len(lines) :
      (firstToken(lines, n) = "CALL" /\ secondWordOf[lines[n]] # "") =>
        /\ Has(result[1].errors,
               Err(n, "CALL should not be used with functions. Use function calls directly: "
                      \o secondWordOf[lines[n]] \o "(...)"))
             <=> functionDeclaredBefore(lines, n, toLowerCase(secondWordOf[lines[n]]))
        /\ ~functionDeclaredBefore(lines, n, toLowerCase(secondWordOf[lines[n]]))
             => OnLineWith(result[1].errors, n, "CALL should not be used") = {}

\* C17 witness: f is called, as F, before and after its FUNCTION header: the result
\* has the error on line 3 and none on line 1
C17_Witness ==
  /\ ReturnedNormally
  /\ lines = <<"CALL F(1)", "FUNCTION f(n: INTEGER) RETURNS INTEGER", "CALL F(1)">>
  /\ OnLineWith(result[1].errors, 1, "CALL should not be used") = {}
  /\ Has(result[1].errors,
         Err(3, "CALL should not be used with functions. Use function calls directly: F(...)"))

\* the names (lower-cased) of the LENGTH(<name>) uses of line n of ls whose type in
\* the table vt is recorded and holds neither STRING nor ARRAY
lengthMisuses(ls, n, vt) ==
  {v \in SeqToSet(Facts[ls[n]].lengths) :
     /\ v \in DOMAIN vt
     /\ ~includes(toUpperCase(vt[v].type), "STRING")
     /\ ~includes(toUpperCase(vt[v].type), "ARRAY")}

\* C18: in the result, the LENGTH errors of each line are those of the uses
\* LENGTH(<name>) of the line whose name has, in the symbol table as the whole scan
\* left it, a recorded type that holds neither STRING nor ARRAY, each naming that
\* type; the declaration may come before or after the use, and a name that is not
\* in the table is not reported.
C18_LengthReadsFinalTable ==
  ReturnedNormally =>
    \A n \in 1..Len(lines) :
      {result[1].errors[i].message :
         i \in OnLineWith(result[1].errors, n, "LENGTH() can only be used")}
        = {"LENGTH() can only be used with STRING or ARRAY variables, not "
             \o variableTypes[v].type : v \in lengthMisuses(lines, n, variableTypes)}

\* C18 witness: length( N ) on line 1 and n declared INTEGER on line 2, then
\* STRING on line 3: the result has the error for n on line 1, naming INTEGER, and
\* none for the undeclared s
C18_Witness ==
  /\ ReturnedNormally
  /\ lines = <<"OUTPUT LENGTH(s), length( N )", "DECLARE n: INTEGER", "DECLARE n: STRING">>
  /\ Has(result[1].errors,
         Err(1, "LENGTH() can only be used with STRING or ARRAY variables, not INTEGER"))
  /\ Cardinality(OnLineWith(result[1].errors, 1, "LENGTH() can only be used")) = 1

\* the opener of the family of each closer
openerOf ==
  [c \in CloserWords |-> CHOOSE w \in OpenerWords : requiredCloser[w] = c]

\* the number of lines among the first n of ls whose first token is w
tokenCount(ls, n, w) == Cardinality({m \in 1..n : firstToken(ls, m) = w})

\* C19 (as stated): in the result, for each of the eight closers (ENDIF, NEXT,
\* ENDWHILE, UNTIL, ENDPROCEDURE, ENDFUNCTION, ENDCASE, ENDTYPE), a line of that
\* closer has the error "Extra <closer> - no matching opening block" exactly when,
\* from the first line up to and including that line, the closers of its family
\* outnumber the openers of its family.
C19_ExtraCloserSweep ==
  ReturnedNormally =>
    \A n \in 1..Len(lines) :
      firstToken(lines, n) \in CloserWords =>
        LET closer == firstToken(lines, n)
        IN Has(result[1].errors, Err(n, "Extra " \o closer \o " - no matching opening block"))
             <=> tokenCount(lines, n, closer) > tokenCount(lines, n, openerOf[closer])

\* the diagnostic e is an undeclared-use error
isUndeclaredUse(e) ==
  /\ startsWith(e.message, "Variable '")
  /\ includes(e.message, "' must be declared before use")

\* C20: the step that processes a line of code with an odd number of double quotes
\* pushes exactly one "Unclosed string" error for the line, and the reference check
\* does not run on it: the only undeclared-use error the step may push is the one
\* of the assignment check for the target of the line, and (on a line that is not
\* itself a declaration or a header) the symbol table is left as it was.
C20_UnclosedStringSkipsReferences ==
  [][ (/\ pc = "scan"
       /\ ~Facts[lines[index + 1]].skip
       /\ quotesOf[lines[index + 1]] % 2 = 1)
      => LET n == index + 1
             f == Facts[lines[n]]
         IN /\ Cardinality(OnLineWith(pushedByStep, n, "Unclosed string")) = 1
            /\ Has(pushedByStep, Err(n, "Unclosed string - missing closing quote"))
            /\ \A i \in 1..Len(pushedByStep) :
                 isUndeclaredUse(pushedByStep[i]) =>
                   /\ f.assignment # <<>>
                   /\ toLowerCase(f.assignment[1]) \notin declaredVariables
                   /\ pushedByStep[i]
                        = Err(n, "Variable '" \o f.assignment[1] \o "' must be declared before use")
            /\ firstToken(lines, n) \notin {"DECLARE", "CONSTANT", "FUNCTION", "PROCEDURE"}
                 => /\ declaredVariables' = declaredVariables
                    /\ variableTypes' = variableTypes
    ]_vars

\* C20 witness: a result on an OUTPUT line with one double quote and the
\* undeclared names hi and y: the line has the unclosed-string error and no
\* undeclared-use error
C20_Witness ==
  /\ ReturnedNormally
  /\ lines[1] = "OUTPUT \"hi, y"
  /\ declaredVariables = {}
  /\ Has(result[1].errors, Err(1, "Unclosed string - missing closing quote"))
  /\ \A i \in 1..Len(result[1].errors) :
       result[1].errors[i].line = 1 => ~isUndeclaredUse(result[1].errors[i])

\* line n of ls starts with ENDFOR and a line before it starts with FOR
endforAfterFor(ls, n) ==
  /\ startsWith(trimmed(ls, n), "ENDFOR")
  /\ \E m \in 1..(n - 1) : ~Facts[ls[m]].skip /\ startsWith(trimmed(ls, m), "FOR")

\* C21 (as stated): in the result, every line that starts with ENDFOR and comes
\* after a line that starts with FOR has the error "FOR loops must end with NEXT,
\* not ENDFOR"; so has each of two ENDFOR lines that follow one FOR line.
C21_EveryEndforFlagged ==
  ReturnedNormally =>
    \A n \in 1..Len(lines) :
      endforAfterFor(lines, n) =>
        Has(result[1].errors, Err(n, "FOR loops must end with NEXT, not ENDFOR"))

\* the lines after line n that are not blank
nonBlankAfter(ls, n) == { m \in (n + 1)..Len(ls) : trimmed(ls, m) # "" }

\* the first line after line n that is not blank, 0 if there is none
nextNonBlank(ls, n) ==
  IF nonBlankAfter(ls, n) = {} THEN 0
  ELSE CHOOSE m \in nonBlankAfter(ls, n) : \A k \in nonBlankAfter(ls, n) : m <= k

isForTo(t) == startsWith(t, "FOR ") /\ includes(t, " TO ")

\* C22 (as stated): a FOR ... TO line has the empty-loop-body warning in the
\* result if and only if the first non-blank line after it is a NEXT line; blank
\* lines in between do not prevent the warning.
C22_EmptyLoopWarning ==
  ReturnedNormally =>
    \A n \in 1..Len(lines) :
      isForTo(trimmed(lines, n)) =>
        ( Has(result[1].errors,
              Warn(n, "Empty FOR loop body - consider adding statements or removing the loop"))
          <=> /\ nextNonBlank(lines, n) # 0
              /\ startsWith(trimmed(lines, nextNonBlank(lines, n)), "NEXT ") )

\* positions of an "=" of s that is not the second character of "<=" or ">="
freeEquals(s) ==
  { i \in 1..Len(s) : Ch(s, i) = "=" /\ (i = 1 \/ Ch(s, i - 1) \notin {"<", ">"}) }

\* the keyword w stands in s as a word of its own
hasWord(s, w) ==
  \E i \in 1..(Len(s) - Len(w) + 1) :
    /\ SubSeq(s, i, i + Len(w) - 1) = w
    /\ (i = 1 \/ Ch(s, i - 1) \notin WordSet)
    /\ (i + Len(w) > Len(s) \/ Ch(s, i + Len(w)) \notin WordSet)

\* C23 (as stated): a code line has the error "Use ← for assignment instead of ="
\* if and only if it contains an "=" that is not part of <=, >= or <>, does not
\* start with CONSTANT and contains none of the keywords IF, WHILE, UNTIL; the
\* "=" is flagged even when the line also holds a compound relational operator.
C23_AssignmentOperator ==
  ReturnedNormally =>
    \A n \in 1..Len(lines) :
      ~Facts[lines[n]].skip =>
        ( Has(result[1].errors,
              Err(n, "Use ← for assignment instead of = (Cambridge rule)"))
          <=> /\ freeEquals(trimmed(lines, n)) # {}
              /\ ~startsWith(trimmed(lines, n), "CONSTANT")
              /\ \A w \in {"IF", "WHILE", "UNTIL"} : ~hasWord(trimmed(lines, n), w) )

\* C24: within a call the symbol table, the array table and the function set only
\* grow: no step removes a name from any of them, and the step that processes a
\* closer line leaves all three as they were; so a parameter registered by a
\* PROCEDURE or FUNCTION header is never reported undeclared on a later line, the
\* lines after the block's closer included.
C24_TablesOnlyGrow ==
  /\ [][ /\ declaredVariables \subseteq declaredVariables'
         /\ DOMAIN variableTypes \subseteq DOMAIN variableTypes'
         /\ DOMAIN arrayDeclarations \subseteq DOMAIN arrayDeclarations'
         /\ declaredFunctions \subseteq declaredFunctions'
         /\ (pc = "scan" /\ firstToken(lines, index + 1) \in CloserWords)
              => UNCHANGED <<declaredVariables, variableTypes, arrayDeclarations,
                             declaredFunctions>>
      ]_vars
  /\ [](ReturnedNormally =>
          \A n \in 1..Len(lines) : \A m \in (n + 1)..Len(lines) :
            \A e \in SeqToSet(result[1].errors) :
              (e.line = m /\ isUndeclaredUse(e) /\ ~Facts[lines[n]].skip)
                => \A q \in SeqToSet(Facts[lines[n]].params) :
                     toLowerCase(SubSeq(e.message, 11, Len(e.message) - 29)) # toLowerCase(q.name))

\* C24 witness: the parameter n of f is used after ENDFUNCTION; the result reports
\* the undeclared Y of that line but not n, and f and n are still in the tables.
C24_Witness ==
  /\ ReturnedNormally
  /\ lines = <<"FUNCTION f(n: INTEGER) RETURNS INTEGER", "ENDFUNCTION", "OUTPUT Y, n">>
  /\ "n" \in declaredVariables
  /\ "f" \in declaredFunctions
  /\ Has(result[1].errors, Err(3, "Variable 'Y' must be declared before use"))
  /\ ~Has(result[1].errors, Err(3, "Variable 'n' must be declared before use"))

\* the opener lines among the first k lines of ls
openersSeen(ls, k) == {m \in 1..k : firstToken(ls, m) \in OpenerWords}

\* the closer lines among the first k lines of ls that found a block open
closersServed(ls, k) ==
  {m \in 1..k : firstToken(ls, m) \in CloserWords /\ openAfter(ls, m - 1) > 0}

\* C25: after each processed line k every entry of the block stack holds an opener
\* keyword of BLOCK_KEYWORDS and the number, at most k, of the line that opened it;
\* the line numbers increase strictly from the bottom of the stack to the top; the
\* depth is the number of opener lines seen minus the number of closer lines seen
\* that found the stack non-empty; and one line changes the depth by at most one.
C25_BlockStackShape ==
  /\ [](/\ \A i \in 1..Len(blockStack) :
             /\ blockStack[i].keyword \in DOMAIN BLOCK_KEYWORDS
             /\ blockStack[i].keyword \in OpenerWords
             /\ blockStack[i].line \in 1..index
             /\ firstToken(lines, blockStack[i].line) = blockStack[i].keyword
        /\ \A j \in 1..(Len(blockStack) - 1) : blockStack[j].line < blockStack[j + 1].line
        /\ Len(blockStack) = Cardinality(openersSeen(lines, index))
                               - Cardinality(closersServed(lines, index)))
  /\ [][ /\ Len(blockStack') - Len(blockStack) \in {-1, 0, 1}
         /\ Len(blockStack') # Len(blockStack) => pc = "scan" /\ index' = index + 1
      ]_vars

\* C25 witness: a closer on line 1 found the stack empty and lines 2 and 3 opened
\* two blocks: the stack holds them in that order
C25_Witness ==
  /\ ReturnedNormally
  /\ Len(lines) = 3
  /\ firstToken(lines, 1) \in CloserWords
  /\ Len(blockStack) = 2
  /\ blockStack[1].line = 2
  /\ blockStack[2].line = 3

\* the openers the extra-closer sweep counts
SweptOpeners == {"IF", "WHILE", "PROCEDURE", "FUNCTION", "CASE", "TYPE"}

\* every IF, WHILE, PROCEDURE, FUNCTION, CASE and TYPE opener line of ls has its
\* keyword followed by a space and further text
openersSpelledOut(ls) ==
  \A n \in 1..Len(ls) :
    firstToken(ls, n) \in SweptOpeners =>
      /\ startsWith(trimmed(ls, n), firstToken(ls, n) \o " ")
      /\ Len(trimmed(ls, n)) > Len(firstToken(ls, n)) + 1

isStackDiagnostic(e) ==
  \/ startsWith(e.message, "Unexpected ")
  \/ startsWith(e.message, "Expected ") /\ includes(e.message, " but found ")

\* C26: on an input whose IF, WHILE, PROCEDURE, FUNCTION, CASE and TYPE opener
\* lines all have the keyword followed by a space and further text, whenever the
\* result has an "Extra <closer>" error on a line n it also has an "Unexpected
\* ..." or "Expected ... but found ..." error of the stack check on line n or on
\* an earlier line.
C26_ExtraImpliesStackError ==
  (ReturnedNormally /\ openersSpelledOut(lines)) =>
    \A e \in SeqToSet(result[1].errors) :
      startsWith(e.message, "Extra ") =>
        \E d \in SeqToSet(result[1].errors) : isStackDiagnostic(d) /\ d.line <= e.line

\* C26 witness: line 1 is an extra ENDWHILE, reported by the sweep and by the
\* stack check; line 2 is a NEXT that the stack check reports and the sweep does
\* not (the converse fails there)
C26_Witness ==
  /\ ReturnedNormally
  /\ openersSpelledOut(lines)
  /\ Len(lines) >= 2
  /\ Has(result[1].errors, Err(1, "Extra ENDWHILE - no matching opening block"))
  /\ Has(result[1].errors, Err(1, "Unexpected ENDWHILE without matching opening"))
  /\ Has(result[1].errors, Err(2, "Unexpected NEXT without matching opening"))
  /\ OnLineWith(result[1].errors, 2, "Extra ") = {}

\* an input outside C26: after an IF line with no space after the keyword, the
\* ENDIF is extra for the sweep and in order for the stack check
C26_BareOpener ==
  /\ ReturnedNormally
  /\ lines = <<"IF", "ENDIF">>
  /\ Has(result[1].errors, Err(2, "Extra ENDIF - no matching opening block"))
  /\ \A e \in SeqToSet(result[1].errors) : ~isStackDiagnostic(e)

\* C27: the array table holds, for each name, the bounds of the most recent line
\* "DECLARE <name> : ARRAY[<lo>:<hi>]" processed for it, and nothing else: the step
\* on such a line sets the entry of the name to the bounds and the number of that
\* line, also when the symbol table rejects the declaration (the name is already
\* declared, or is a reserved keyword), and no other step writes to the table.
C27_ArrayTableLatest ==
  /\ [][ IF pc = "scan" /\ ~Facts[lines[index + 1]].skip
            /\ Facts[lines[index + 1]].arrays # <<>>
         THEN LET a == Facts[lines[index + 1]].arrays[1]
              IN /\ DOMAIN arrayDeclarations' = DOMAIN arrayDeclarations \cup {a.name}
                 /\ arrayDeclarations'[a.name]
                      = [start |-> a.start, end |-> a.end, line |-> index + 1]
                 /\ \A b \in DOMAIN arrayDeclarations \ {a.name} :
                      arrayDeclarations'[b] = arrayDeclarations[b]
         ELSE arrayDeclarations' = arrayDeclarations
      ]_vars
  /\ [](\A b \in DOMAIN arrayDeclarations :
          /\ arrayDeclaresUpTo(lines, index, b) # {}
          /\ LET last == lastOf(arrayDeclaresUpTo(lines, index, b))
             IN arrayDeclarations[b]
                  = [start |-> Facts[lines[last]].arrays[1].start,
                     end |-> Facts[lines[last]].arrays[1].end, line |-> last])

\* C27 witness: a is declared 1:5 and then 3:8; the second DECLARE is rejected as
\* a redeclaration and the symbol table keeps line 1, the array table has 3:8 and
\* a[6] on line 3 is not reported out of bounds
C27_Witness ==
  /\ ReturnedNormally
  /\ lines = <<"DECLARE a: ARRAY[1:5] OF INTEGER", "DECLARE a: ARRAY[3:8] OF INTEGER",
               "a[6] ← b[3]">>
  /\ OnLineWith(result[1].errors, 2, "Variable 'a' redeclared with different type") # {}
  /\ variableTypes["a"] = [type |-> "ARRAY[1:5] OF INTEGER", line |-> 1]
  /\ arrayDeclarations["a"] = [start |-> 3, end |-> 8, line |-> 2]
  /\ OnLineWith(result[1].errors, 3, "Array index ") = {}

\* an array named by a reserved keyword is refused by the symbol table and is in
\* the array table
C27_KeywordArray ==
  /\ ReturnedNormally
  /\ lines = <<"DECLARE step: ARRAY[1:2] OF CHAR">>
  /\ Has(result[1].errors,
         Err(1, "'step' is a reserved keyword and cannot be used as a variable name"))
  /\ declaredVariables = {}
  /\ arrayDeclarations["step"] = [start |-> 1, end |-> 2, line |-> 1]

\* C28 (as stated): on an input with at least one line of code, the step on a
\* blank line or a comment line leaves the block stack and the symbol, array and
\* function tables unchanged, and no diagnostic of the result carries the number
\* of such a line, whatever the comment says.
C28_CommentLinesAreInert ==
  /\ [][ (pc = "scan" /\ Facts[lines[index + 1]].skip) => UNCHANGED tables ]_vars
  /\ [](ReturnedNormally =>
          \A e \in SeqToSet(result[1].errors) : ~Facts[lines[e.line]].skip)

\* the positions of errs that hold the first diagnostic of their line and message
keptPositions(errs) ==
  {i \in 1..Len(errs) :
     \A j \in 1..(i - 1) : ~(errs[j].line = errs[i].line /\ errs[j].message = errs[i].message)}

\* kept is errs without the later occurrences of a (line, message) pair, in order
keepsFirstInOrder(errs, kept) ==
  /\ Len(kept) = Cardinality(keptPositions(errs))
  /\ \A i \in keptPositions(errs) :
       kept[Cardinality({j \in keptPositions(errs) : j <= i})] = errs[i]

\* the diagnostics of ds all start with prefix and their line numbers never decrease
sweepOrdered(ds, prefix) ==
  /\ \A i \in 1..Len(ds) : startsWith(ds[i].message, prefix)
  /\ \A i \in 1..(Len(ds) - 1) : ds[i].line <= ds[i + 1].line

\* the phases of a call in the order they run
phaseRank ==
  [ph \in {"guard", "scan", "unmatched", "extra", "length", "emptyLoops", "dedup", "done"} |->
     CASE ph = "guard" -> 0 [] ph = "scan" -> 1 [] ph = "unmatched" -> 2 [] ph = "extra" -> 3
       [] ph = "length" -> 4 [] ph = "emptyLoops" -> 5 [] ph = "dedup" -> 6 [] ph = "done" -> 7]

\* C29: the diagnostics are ordered by phase, not by line. Every step appends to
\* the collected diagnostics and the phases run in the order line pass (line by
\* line), unmatched openers, extra closers, LENGTH, empty loops; each sweep appends
\* only its own diagnostics, in increasing line order (the unmatched openers
\* strictly so); and the returned sequence is the collected one without the later
\* occurrences of a (line, message) pair, the rest in the same order.
C29_OrderedByPhase ==
  [][ /\ SubSeq(errors', 1, Len(errors)) = errors
      /\ phaseRank[pc] <= phaseRank[pc']
      /\ pc = "scan" => index' = index + 1
      /\ pc = "unmatched" =>
           /\ pc' = "extra"
           /\ sweepOrdered(pushedByStep, "Unmatched ")
           /\ \A i \in 1..(Len(pushedByStep) - 1) :
                pushedByStep[i].line < pushedByStep[i + 1].line
      /\ pc = "extra" => pc' = "length" /\ sweepOrdered(pushedByStep, "Extra ")
      /\ pc = "length" => pc' = "emptyLoops" /\ sweepOrdered(pushedByStep, "LENGTH() can only")
      /\ pc = "emptyLoops" => pc' = "dedup" /\ sweepOrdered(pushedByStep, "Empty ")
      /\ pc = "dedup" =>
           /\ errors' = errors
           /\ keepsFirstInOrder(errors, result'[1].errors)
    ]_vars

\* C29 witness: a result where a diagnostic of the line pass on line 3 comes before
\* the two unmatched openers of lines 1 and 2, and a duplicate has been dropped
C29_Witness ==
  /\ ReturnedNormally
  /\ Len(result[1].errors) < Len(errors)
  /\ \E i \in 1..(Len(result[1].errors) - 2) :
       /\ result[1].errors[i].line = 3
       /\ result[1].errors[i + 1].line = 1
       /\ startsWith(result[1].errors[i + 1].message, "Unmatched ")
       /\ result[1].errors[i + 2].line = 2
       /\ startsWith(result[1].errors[i + 2].message, "Unmatched ")

\* the code lines of ls whose first word is all capitals and is not a keyword
capsNonKeywordLines(ls) ==
  {n \in 1..Len(ls) : /\ ~Facts[ls[n]].skip
                       /\ Facts[ls[n]].caps
                       /\ Facts[ls[n]].firstWord \notin KEYWORDS}

\* C30: the diagnostic "Unknown keyword: <word>" is never produced: neither the
\* collected diagnostics nor the result of any call hold a message that starts
\* with "Unknown keyword", also when the first word of a line is all capitals and
\* is not a keyword (ENDFOR, FORMAT).
C30_UnknownKeywordUnreachable ==
  /\ \A i \in 1..Len(errors) : ~startsWith(errors[i].message, "Unknown keyword")
  /\ pc = "done" =>
       \A i \in 1..Len(result[1].errors) :
         ~startsWith(result[1].errors[i].message, "Unknown keyword")
  /\ \A n \in capsNonKeywordLines(lines) : ~UnknownKeyword(trimmed(lines, n))

\* C30 witness: a result on an input that has ENDFOR as the first word of a line
\* of code: the first-word check ran on it and reported nothing of the kind
C30_Witness ==
  /\ ReturnedNormally
  /\ \E n \in capsNonKeywordLines(lines) :
       /\ Facts[lines[n]].firstWord = "ENDFOR"
       /\ OnLineWith(result[1].errors, n, "This line does not appear to be valid") # {}
       /\ OnLineWith(result[1].errors, n, "Unknown keyword") = {}

====
